---- MODULE Spec2Model ----
(***************************************************************************)
(* Model of the Languager vocabulary bot: the user store and the word      *)
(* store, the Auth and Word services, the in-memory conversation state     *)
(* machine and the Telegram handlers that drive them.                      *)
(*                                                                         *)
(* Strings are sequences of one-character strings.  Time is counted in     *)
(* hours since 1970-01-01T00:00Z.  Every inbound event is a task (the      *)
(* transport runs each handler on its own goroutine); a task moves one     *)
(* step per access to shared state (store call, state map, lock).          *)
(***************************************************************************)
EXTENDS Integers, Sequences, FiniteSets, TLC

(***************************************************************************)
(* Bounds of the model                                                     *)
(***************************************************************************)
MaxWords == 1

MaxConcWords == 2

ConcUsers == {1}

MaxRows == 1

MaxDays == 15

MaxTicks == 2

NTasks == 2

\* rejected password attempts in a row that are counted
MaxAttempts == 2

\* longest callback data given to cleanCallbackData on its own
MaxLen == 3

UserIds == {1, 2}

TaskIds == 1..NTasks

(***************************************************************************)
(* Strings                                                                 *)
(***************************************************************************)
\* unicode.IsSpace on the characters used here; "NUL" stands for the one
\* character U+0000, a control character that is not white space
IsSpace(c) == c \in {" ", "\t", "\n", "\f", "\r"}

\* unicode.IsPrint: letters, digits, marks and the ASCII space
IsPrint(c) == c \notin {"\t", "\n", "\f", "\r", "NUL"}

RECURSIVE TrimLeft(_)
TrimLeft(s) ==
    IF s # <<>> /\ IsSpace(Head(s)) THEN TrimLeft(Tail(s)) ELSE s

RECURSIVE TrimRight(_)
TrimRight(s) ==
    IF s # <<>> /\ IsSpace(s[Len(s)])
    THEN TrimRight(SubSeq(s, 1, Len(s) - 1))
    ELSE s

\* variant: only the leading white space is cut
TrimSpace_LeftOnly(s) == TrimLeft(s)

TrimSpace(s) == TrimRight(TrimLeft(s))

HasPrefix(s, p) == Len(s) >= Len(p) /\ SubSeq(s, 1, Len(p)) = p

TrimPrefix(s, p) == IF HasPrefix(s, p) THEN SubSeq(s, Len(p) + 1, Len(s)) ELSE s

Digits == {"0", "1", "2", "3", "4", "5", "6", "7", "8", "9"}

DigitVal(c) ==
    CASE c = "0" -> 0 [] c = "1" -> 1 [] c = "2" -> 2 [] c = "3" -> 3
      [] c = "4" -> 4 [] c = "5" -> 5 [] c = "6" -> 6 [] c = "7" -> 7
      [] c = "8" -> 8 [] c = "9" -> 9

DigitChar(n) ==
    CASE n = 0 -> "0" [] n = 1 -> "1" [] n = 2 -> "2" [] n = 3 -> "3"
      [] n = 4 -> "4" [] n = 5 -> "5" [] n = 6 -> "6" [] n = 7 -> "7"
      [] n = 8 -> "8" [] n = 9 -> "9"

AllDigits(s) == \A i \in 1..Len(s) : s[i] \in Digits

RECURSIVE DigitsVal(_)
DigitsVal(s) ==
    IF s = <<>> THEN 0
    ELSE 10 * DigitsVal(SubSeq(s, 1, Len(s) - 1)) + DigitVal(s[Len(s)])

\* strconv.Atoi: optional sign followed by at least one digit
Atoi(s) ==
    LET body == IF s # <<>> /\ Head(s) \in {"-", "+"} THEN Tail(s) ELSE s
    IN  IF body = <<>> \/ ~AllDigits(body)
        THEN [ok |-> FALSE, val |-> 0]
        ELSE [ok |-> TRUE,
              val |-> IF s # <<>> /\ Head(s) = "-" THEN 0 - DigitsVal(body)
                      ELSE DigitsVal(body)]

\* zero-padded decimal of n in w digits
RECURSIVE Pad(_, _)
Pad(n, w) ==
    IF w = 0 THEN <<>> ELSE Append(Pad(n \div 10, w - 1), DigitChar(n % 10))

(***************************************************************************)
(* Calendar and clock                                                      *)
(***************************************************************************)
HoursPerDay == 24

MoscowOffset == 3

Null == -1

IsLeap(y) == (y % 4 = 0 /\ y % 100 # 0) \/ y % 400 = 0

DaysIn(y, m) ==
    IF m = 2 THEN (IF IsLeap(y) THEN 29 ELSE 28)
    ELSE IF m \in {4, 6, 9, 11} THEN 30 ELSE 31

\* days since 1970-01-01 of the civil date y-m-d
DaysFromCivil(y, m, d) ==
    LET yy  == IF m <= 2 THEN y - 1 ELSE y
        era == yy \div 400
        yoe == yy - era * 400
        mp  == IF m > 2 THEN m - 3 ELSE m + 9
        doy == (153 * mp + 2) \div 5 + d - 1
        doe == yoe * 365 + yoe \div 4 - yoe \div 100 + doy
    IN  era * 146097 + doe - 719468

\* civil date of the day number z
CivilFromDays(z) ==
    LET zz  == z + 719468
        era == zz \div 146097
        doe == zz - era * 146097
        yoe == (doe - doe \div 1460 + doe \div 36524 - doe \div 146096) \div 365
        doy == doe - (365 * yoe + yoe \div 4 - yoe \div 100)
        mp  == (5 * doy + 2) \div 153
        d   == doy - (153 * mp + 2) \div 5 + 1
        m   == IF mp < 10 THEN mp + 3 ELSE mp - 9
        y   == yoe + era * 400 + (IF m <= 2 THEN 1 ELSE 0)
    IN  [y |-> y, m |-> m, d |-> d]

\* DATE(ts AT TIME ZONE 'Europe/Moscow'): the Moscow calendar day of an instant
MoscowDate(ts) == (ts + MoscowOffset) \div HoursPerDay

\* DATE(ts) in a UTC session
UTCDate(ts) == ts \div HoursPerDay

\* Day.DateString: Format("20060102")
DateString(day) ==
    LET c == CivilFromDays(day)
    IN  Pad(c.y, 4) \o Pad(c.m, 2) \o Pad(c.d, 2)

\* decimal of n without padding, as Format("2") writes the day of month
Decimal(n) ==
    IF n < 10 THEN <<DigitChar(n)>> ELSE <<DigitChar(n \div 10), DigitChar(n % 10)>>

\* the month abbreviations of Day.DisplayString, in Latin letters
months ==
    <<"yanv", "fev", "mar", "apr", "maya", "iyun",
      "iyul", "avg", "sen", "okt", "noya", "dek">>

\* the Today and Yesterday tokens, in Latin letters
Today == <<"Segodnya">>

Yesterday == <<"Vchera">>

\* the UTC offsets time.Local can have where the bot runs: the runtime image
\* sets no TZ (UTC); an operator may set TZ=Europe/Moscow
LocalOffsets == {0, MoscowOffset}

\* the calendar day of instant ts on a clock `zone` hours ahead of UTC
LocalDate(ts, zone) == (ts + zone) \div HoursPerDay

\* Day.DisplayString: now := time.Now() is read on the process's local
\* clock; date is the calendar day the store returned
DisplayString(date, at, zone) ==
    LET today == LocalDate(at, zone)
        c == CivilFromDays(date)
    IN  IF date = today THEN Today
        ELSE IF date = today - 1 THEN Yesterday
        ELSE Decimal(c.d) \o <<" ", months[c.m], " ">> \o Pad(c.y, 4)

\* time.Parse("20060102", s)
\* variant: a layout with dashes is accepted too
ParseDate_Lenient(s) ==
    LET t == SelectSeq(s, LAMBDA c : c # "-")
    IN  IF Len(t) # 8 \/ ~AllDigits(t) THEN [ok |-> FALSE, day |-> 0]
        ELSE LET y == DigitsVal(SubSeq(t, 1, 4))
                 m == DigitsVal(SubSeq(t, 5, 6))
                 d == DigitsVal(SubSeq(t, 7, 8))
             IN  IF m < 1 \/ m > 12 \/ d < 1 \/ d > DaysIn(y, m)
                 THEN [ok |-> FALSE, day |-> 0]
                 ELSE [ok |-> TRUE, day |-> DaysFromCivil(y, m, d)]

ParseDate(s) ==
    IF Len(s) # 8 \/ ~AllDigits(s) THEN [ok |-> FALSE, day |-> 0]
    ELSE LET y == DigitsVal(SubSeq(s, 1, 4))
             m == DigitsVal(SubSeq(s, 5, 6))
             d == DigitsVal(SubSeq(s, 7, 8))
         IN  IF m < 1 \/ m > 12 \/ d < 1 \/ d > DaysIn(y, m)
             THEN [ok |-> FALSE, day |-> 0]
             ELSE [ok |-> TRUE, day |-> DaysFromCivil(y, m, d)]

(***************************************************************************)
(* Program constants                                                       *)
(***************************************************************************)
\* BOT_PASSWORD: any non-empty configured string
Password == <<"a">>

pageSize == 7

retentionDays == 60

LookbackDays == 60

HideDays == 7

StateIdle == "idle"

StateWaitingWord == "waiting_word"

StateWaitingTranslation == "waiting_translation"

StateWaitingPassword == "waiting_password"

\* &domain.StateData{State: s, CurrentWord: w}
StateData(s, w) == [State |-> s, CurrentWord |-> w]

(***************************************************************************)
(* State                                                                   *)
(***************************************************************************)
VARIABLES
    users,          \* table users: user_id -> [authorized]
    words,          \* table words: set of rows
    nextId,         \* SERIAL words.id
    now,            \* wall clock, hours
    ticks,          \* number of clock advances so far
    states,         \* Handler.states: userID -> StateData
    callbackLocks,  \* Handler.callbackLocks: userID -> mutex
    lockHolder,     \* mutex -> task holding it (0 = unlocked)
    tasks,          \* handler goroutines
    ret,            \* result of the last direct service call
    job             \* the cleanup goroutine, its ticker and the shared context

vars == <<users, words, nextId, now, ticks, states, callbackLocks,
          lockHolder, tasks, ret, job>>

\* m[k] = v added to or replaced in the map m
MapSet(m, k, v) == [x \in DOMAIN m \cup {k} |-> IF x = k THEN v ELSE m[x]]

EmptyMap == [x \in {} |-> 0]

(***************************************************************************)
(* User store and Auth service                                             *)
(***************************************************************************)
\* SELECT authorized FROM users; no row gives (false, nil)
IsAuthorized(us, u) == IF u \in DOMAIN us THEN us[u].authorized ELSE FALSE

\* INSERT ... VALUES (u, TRUE) ON CONFLICT DO UPDATE SET authorized = TRUE
AuthorizeUser(us, u) == MapSet(us, u, [authorized |-> TRUE])

\* variant: the insert is dropped
EnsureUserExists_Noop(us, u) == us

\* variant: ON CONFLICT DO UPDATE SET authorized = FALSE
EnsureUserExists_Overwrite(us, u) == MapSet(us, u, [authorized |-> FALSE])

\* INSERT ... VALUES (u, FALSE) ON CONFLICT DO NOTHING
EnsureUserExists(us, u) ==
    IF u \in DOMAIN us THEN us ELSE MapSet(us, u, [authorized |-> FALSE])

\* variant: any non-empty text passes
CheckPassword_NonEmpty(password) == password # <<>>

\* variant: the comparison ignores letter case (strings.EqualFold)
CheckPassword_FoldCase(password) ==
    /\ Len(password) = Len(Password)
    /\ \A i \in 1..Len(password) :
          (IF password[i] = "A" THEN "a" ELSE password[i]) = Password[i]

CheckPassword(password) == password = Password

(***************************************************************************)
(* Word store                                                              *)
(***************************************************************************)
WordRow(id, u, w, t, at) ==
    [id |-> id, user_id |-> u, word |-> w, translation |-> t,
     created_at |-> at, hidden_until |-> Null, hidden_forever |-> FALSE]

\* variant: word and translation bound to the wrong columns
SaveWord_Swapped(ws, id, u, w, t, at) == ws \cup {WordRow(id, u, t, w, at)}

\* INSERT INTO words (user_id, word, translation); created_at defaults to
\* CURRENT_TIMESTAMP, the hide columns to NULL / FALSE
SaveWord(ws, id, u, w, t, at) == ws \cup {WordRow(id, u, w, t, at)}

\* variant: the hidden_until condition is left out of the WHERE clause
RandomCandidates_NoUntil(ws, u, at) ==
    {r \in ws : r.user_id = u /\ r.hidden_forever = FALSE}

\* variant: a row is admitted only after its hidden_until instant
RandomCandidates_Strict(ws, u, at) ==
    {r \in ws : /\ r.user_id = u
                /\ r.hidden_forever = FALSE
                /\ (r.hidden_until = Null \/ r.hidden_until < at)}

\* the rows GetRandomWord's WHERE clause admits; ORDER BY RANDOM() LIMIT 1
\* picks any one of them
RandomCandidates(ws, u, at) ==
    {r \in ws : /\ r.user_id = u
                /\ r.hidden_forever = FALSE
                /\ (r.hidden_until = Null \/ r.hidden_until <= at)}

\* created_at >= NOW() - INTERVAL '60 days'
InLookback(r, at) == r.created_at >= at - LookbackDays * HoursPerDay

DaysOf(ws, u, at) ==
    {MoscowDate(r.created_at) : r \in {x \in ws : x.user_id = u /\ InLookback(x, at)}}

RECURSIVE SortDesc(_)
SortDesc(S) ==
    IF S = {} THEN <<>>
    ELSE LET mx == CHOOSE x \in S : \A y \in S : y <= x
         IN  <<mx>> \o SortDesc(S \ {mx})

\* seq[offset+1 .. offset+limit]
LimitOffset(seq, limit, offset) ==
    SubSeq(seq, offset + 1, IF offset + limit < Len(seq) THEN offset + limit ELSE Len(seq))

\* GROUP BY DATE(created_at AT TIME ZONE 'Europe/Moscow') ORDER BY day DESC
GetDaysWithWords(ws, u, limit, offset, at) ==
    LET all == SortDesc(DaysOf(ws, u, at))
        row(d) == [Date |-> d,
                   WordCount |-> Cardinality({r \in ws : /\ r.user_id = u
                                                         /\ InLookback(r, at)
                                                         /\ MoscowDate(r.created_at) = d})]
        page == LimitOffset(all, limit, offset)
    IN  [i \in 1..Len(page) |-> row(page[i])]

GetTotalDaysCount(ws, u, at) == Cardinality(DaysOf(ws, u, at))

\* variant: the day is taken in UTC, without AT TIME ZONE
GetWordsByDateRepo_UTC(ws, u, day) ==
    {r \in ws : r.user_id = u /\ UTCDate(r.created_at) = day}

\* the rows of u created on Moscow calendar day `day`
GetWordsByDateRepo(ws, u, day) ==
    {r \in ws : r.user_id = u /\ MoscowDate(r.created_at) = day}

\* variant: rows exactly `days` old are deleted too
CleanOldWords_Inclusive(ws, days, at) ==
    {r \in ws : ~(r.created_at <= at - days * HoursPerDay)}

\* DELETE FROM words WHERE created_at < NOW() - INTERVAL '1 day' * days
CleanOldWords(ws, days, at) ==
    {r \in ws : ~(r.created_at < at - days * HoursPerDay)}

\* variant: the WHERE clause is missing
HideWordFor7Days_AllRows(ws, wordID, at) ==
    {[r EXCEPT !.hidden_until = at + HideDays * HoursPerDay] : r \in ws}

\* variant: the temporary hide replaces the permanent one
HideWordFor7Days_Unhide(ws, wordID, at) ==
    {IF r.id = wordID
       THEN [r EXCEPT !.hidden_until = at + HideDays * HoursPerDay,
                      !.hidden_forever = FALSE]
       ELSE r : r \in ws}

\* UPDATE words SET hidden_until = NOW() + INTERVAL '7 days' WHERE id = wordID
HideWordFor7Days(ws, wordID, at) ==
    {IF r.id = wordID
       THEN [r EXCEPT !.hidden_until = at + HideDays * HoursPerDay]
       ELSE r : r \in ws}

\* UPDATE words SET hidden_forever = TRUE WHERE id = wordID
HideWordForever(ws, wordID) ==
    {IF r.id = wordID THEN [r EXCEPT !.hidden_forever = TRUE] ELSE r : r \in ws}

(***************************************************************************)
(* Word service                                                            *)
(***************************************************************************)
\* variant: only the word is validated
SaveWordPair_WordOnly(ws, id, us, u, word, translation, at, dbOk) ==
    IF word = <<>>
    THEN [err |-> "validation", words |-> ws, nextId |-> id, calls |-> 0]
    ELSE IF ~dbOk \/ u \notin DOMAIN us
    THEN [err |-> "store", words |-> ws, nextId |-> id, calls |-> 1]
    ELSE [err |-> "", words |-> SaveWord(ws, id, u, word, translation, at),
          nextId |-> id + 1, calls |-> 1]

\* dbOk: whether the database answers this call.  The insert also fails when
\* the owning user row is missing (FOREIGN KEY words.user_id).
SaveWordPair(ws, id, us, u, word, translation, at, dbOk) ==
    IF word = <<>> \/ translation = <<>>
    THEN [err |-> "validation", words |-> ws, nextId |-> id, calls |-> 0]
    ELSE IF ~dbOk \/ u \notin DOMAIN us
    THEN [err |-> "store", words |-> ws, nextId |-> id, calls |-> 1]
    ELSE [err |-> "", words |-> SaveWord(ws, id, u, word, translation, at),
          nextId |-> id + 1, calls |-> 1]

\* the value returned when no row is found (nil)
NoWord == WordRow(0, 0, <<>>, <<>>, 0)

\* variant: a failed query is reported as "no data"
GetRandomPair_SwallowErr(ws, u, at, dbOk) ==
    IF ~dbOk \/ RandomCandidates(ws, u, at) = {}
    THEN {[err |-> "", found |-> FALSE, word |-> NoWord]}
    ELSE {[err |-> "", found |-> TRUE, word |-> r] : r \in RandomCandidates(ws, u, at)}

\* WordService.GetRandomPair / WordRepo.GetRandomWord: the results the call
\* may return (ORDER BY RANDOM() LIMIT 1 picks any admitted row)
GetRandomPair(ws, u, at, dbOk) ==
    IF ~dbOk THEN {[err |-> "store", found |-> FALSE, word |-> NoWord]}
    ELSE IF RandomCandidates(ws, u, at) = {}
    THEN {[err |-> "", found |-> FALSE, word |-> NoWord]}
    ELSE {[err |-> "", found |-> TRUE, word |-> r] : r \in RandomCandidates(ws, u, at)}

\* WordService.HideWordFor7Days: passes the id on to the store
WordService_HideWordFor7Days(ws, wordID, at) == HideWordFor7Days(ws, wordID, at)

\* WordService.HideWordForever: passes the id on to the store
WordService_HideWordForever(ws, wordID) == HideWordForever(ws, wordID)

\* variant: only negative pages are clamped; page 0 asks for OFFSET -7, which
\* the store refuses
GetDaysList_ClampNegative(ws, u, page, at) ==
    LET p == IF page < 0 THEN 1 ELSE page
        offset == (p - 1) * pageSize
        totalDays == GetTotalDaysCount(ws, u, at)
        tp == (totalDays + pageSize - 1) \div pageSize
    IN  IF offset < 0
        THEN [days |-> <<>>, totalPages |-> 0, limit |-> pageSize, offset |-> offset]
        ELSE [days |-> GetDaysWithWords(ws, u, pageSize, offset, at),
              totalPages |-> IF tp = 0 THEN 1 ELSE tp,
              limit |-> pageSize, offset |-> offset]

\* variant: the page count is rounded down
GetDaysList_FloorPages(ws, u, page, at) ==
    LET p == IF page < 1 THEN 1 ELSE page
        offset == (p - 1) * pageSize
        tp == GetTotalDaysCount(ws, u, at) \div pageSize
    IN  [days |-> GetDaysWithWords(ws, u, pageSize, offset, at),
         totalPages |-> IF tp = 0 THEN 1 ELSE tp,
         limit |-> pageSize, offset |-> offset]

GetDaysList(ws, u, page, at) ==
    LET p == IF page < 1 THEN 1 ELSE page
        offset == (p - 1) * pageSize
        days == GetDaysWithWords(ws, u, pageSize, offset, at)
        totalDays == GetTotalDaysCount(ws, u, at)
        tp == (totalDays + pageSize - 1) \div pageSize
    IN  [days |-> days, totalPages |-> IF tp = 0 THEN 1 ELSE tp,
         limit |-> pageSize, offset |-> offset]

GetWordsByDate(ws, u, dateStr) ==
    LET d == ParseDate(dateStr)
    IN  IF ~d.ok THEN [err |-> "invalid date format", words |-> {}, calls |-> 0]
        ELSE [err |-> "", words |-> GetWordsByDateRepo(ws, u, d.day), calls |-> 1]

\* StatsService.CleanupOldData
CleanupOldData(ws, at) == CleanOldWords(ws, retentionDays, at)

(***************************************************************************)
(* Inbound events                                                          *)
(***************************************************************************)
StartHour == DaysFromCivil(2024, 12, 30) * HoursPerDay

\* message texts that are not the /start command
Texts == { <<"a">>, <<" ", "b", " ">>, <<" ">>, <<"/", "h">> }

\* button presses as the transport delivers them: (Unique, Data)
\* the texts of overlapping messages
ConcTexts == { <<"a">>, <<" ", "b", " ">> }

\* password attempts: the password, the password after a blank, the password
\* in another letter case, another word
AuthTexts == { <<"a">>, <<" ", "a">>, <<"A">>, <<"b">> }

\* the buttons that steer the conversation or list the saved pairs
MenuCallbacks ==
    { [unique |-> "", data |-> <<"\f", "view_days">>],
      [unique |-> "", data |-> <<"\f", "cancel">>],
      [unique |-> "main_menu", data |-> <<>>],
      [unique |-> "", data |-> <<"\f", "day_">> \o DateString(MoscowDate(StartHour))] }

\* the random-pair and hide buttons
PairCallbacks ==
    { [unique |-> "random_pair", data |-> <<>>],
      [unique |-> "", data |-> <<"\f", "page_", "2">>],
      [unique |-> "", data |-> <<"\f", "hide_7d_", "1">>],
      [unique |-> "", data |-> <<"\f", "hide_forever_", "1">>],
      [unique |-> "", data |-> <<"\f", "confirm_hide_", "1">>],
      [unique |-> "", data |-> <<"\f", "cancel_hide_", "1">>],
      [unique |-> "", data |-> <<"\f", "cancel_hide_", "x">>],
      [unique |-> "", data |-> <<"\f", "zzz">>] }

EditOutcomes == {"ok", "not_modified", "failed"}

Absent == StateData("absent", <<>>)

IdleTask ==
    [pc |-> "idle", kind |-> "", user |-> 0, text |-> <<>>, unique |-> "",
     data |-> <<>>, isCb |-> FALSE, authorized |-> FALSE, state |-> Absent,
     lock |-> 0, shown |-> 0, reply |-> "", edit |-> "", acks |-> 0, ops |-> {},
     queries |-> 0, behind |-> {}, pending |-> "", err |-> "", wrong |-> 0,
     unauthOps |-> {}, saveErr |-> "", dbErr |-> "",
     after |-> [kind |-> "none", word |-> <<>>],
     pre |-> [state |-> Absent, words |-> {}, nextId |-> 0, exists |-> FALSE,
              auth |-> FALSE]]

Running(t) == tasks[t].pc \notin {"idle", "done"}

NumRunning == Cardinality({t \in TaskIds : Running(t)})

\* cleanCallbackData: TrimSpace, then drop every non-printable character
RECURSIVE DropNonPrint(_)
DropNonPrint(s) ==
    IF s = <<>> THEN <<>>
    ELSE IF IsPrint(Head(s)) THEN <<Head(s)>> \o DropNonPrint(Tail(s))
    ELSE DropNonPrint(Tail(s))

\* variant: the white space is cut and nothing else is removed
cleanCallbackData_TrimOnly(data) == TrimSpace(data)

cleanCallbackData(data) == DropNonPrint(TrimSpace(data))

\* handleCallback: the handler a button press is routed to (its first step)
handleCallback(unique, rawData) ==
    LET data == cleanCallbackData(rawData)
        byName(n) ==
            CASE n \in {"view_days", "back_to_days"} -> "handleViewDays"
              [] n \in {"random_pair", "more"} -> "handleRandomPair"
              [] n = "cancel" -> "handleCancel"
              [] n \in {"back", "main_menu"} -> "handleStart"
              [] OTHER -> ""
    IN  IF byName(unique) # "" THEN byName(unique)
        ELSE IF unique = "" /\ Len(data) = 1 /\ byName(data[1]) # "" THEN byName(data[1])
        ELSE IF HasPrefix(data, <<"page_">>) THEN "handlePagination"
        ELSE IF HasPrefix(data, <<"day_">>) THEN "handleDaySelection"
        ELSE IF HasPrefix(data, <<"hide_7d_">>) THEN "handleHideFor7Days"
        ELSE IF HasPrefix(data, <<"hide_forever_">>) THEN "handleHideForeverConfirm"
        ELSE IF HasPrefix(data, <<"confirm_hide_">>) THEN "handleConfirmHideForever"
        ELSE IF HasPrefix(data, <<"cancel_hide_">>) THEN "handleCancelHide"
        ELSE "unhandled"

FirstPc(handler) ==
    CASE handler = "handleStart" -> "st_ensure"
      [] handler = "handleText" -> "tx_ensure"
      [] handler = "handleViewDays" -> "vd_query"
      [] handler = "handleRandomPair" -> "rp_lockmap"
      [] handler = "handleCancel" -> "cn_reset"
      [] handler = "handlePagination" -> "pg_query"
      [] handler = "handleDaySelection" -> "ds_query"
      [] handler = "handleHideFor7Days" -> "h7_hide"
      [] handler = "handleHideForeverConfirm" -> "hf_confirm"
      [] handler = "handleConfirmHideForever" -> "ch_hide"
      [] handler = "handleCancelHide" -> "xh_parse"
      [] OTHER -> "cb_unhandled"

\* what the handler that ran just before this update left behind, when it
\* served the same user: a cancel (with the pending word it discarded) or a
\* save of the same text that the store refused (with the pending word)
After(prev, u, text) ==
    IF prev.pc = "done" /\ prev.user = u
    THEN IF prev.kind = "callback" /\ handleCallback(prev.unique, prev.data) = "handleCancel"
         THEN [kind |-> "cancel", word |-> prev.pre.state.CurrentWord]
         ELSE IF prev.kind = "text" /\ prev.saveErr = "store"
                 /\ TrimSpace(prev.text) = TrimSpace(text)
         THEN [kind |-> "storefail", word |-> prev.state.CurrentWord]
         ELSE [kind |-> "none", word |-> <<>>]
    ELSE [kind |-> "none", word |-> <<>>]

\* the number of messages in a row, up to the update that arrives now, that
\* user u sent and that were rejected as a wrong password
Rejected(prev, u) ==
    IF prev.pc = "done" /\ prev.user = u /\ prev.reply = "wrong_password"
    THEN IF prev.wrong < MaxAttempts THEN prev.wrong + 1 ELSE MaxAttempts
    ELSE 0

\* the updates of user u of the same kind (button presses, texts) that were
\* delivered before the one that goes to slot t and whose handlers have not
\* returned yet
Ahead(t, u, kind) ==
    {x \in TaskIds \ {t} : Running(x) /\ tasks[x].kind = kind /\ tasks[x].user = u}

NewTask(t, kind, u, text, cb) ==
    [IdleTask EXCEPT
        !.pc = IF kind = "start" THEN FirstPc("handleStart")
               ELSE IF kind = "text" THEN FirstPc("handleText")
               ELSE FirstPc(handleCallback(cb.unique, cb.data)),
        !.kind = kind, !.user = u, !.text = text,
        !.unique = cb.unique, !.data = cb.data, !.isCb = (kind = "callback"),
        !.after = After(tasks[t], u, text),
        !.behind = Ahead(t, u, kind),
        !.wrong = Rejected(tasks[t], u),
        !.pre = [state |-> IF u \in DOMAIN states THEN states[u] ELSE Absent,
                 words |-> words,
                 nextId |-> nextId,
                 exists |-> u \in DOMAIN users,
                 auth |-> IsAuthorized(users, u)]]

NoCallback == [unique |-> "", data |-> <<>>]

\* lowest slot that holds no running handler
FreeSlot(t) == ~Running(t) /\ \A x \in TaskIds : x < t => Running(x)

RoomToSave(u, cap) ==
    \/ (nextId - 1) + Cardinality({t \in TaskIds : Running(t) /\ tasks[t].kind = "text"}) < cap
    \/ /\ ~(u \in DOMAIN states /\ states[u].State = StateWaitingTranslation)
       /\ \A t \in TaskIds : Running(t) => tasks[t].user # u

\* slot t takes a new update: the handler it held is no longer ahead of any
Reuse(t) == [x \in TaskIds |-> [tasks[x] EXCEPT !.behind = @ \ {t}]]

\* the transport delivers an update and starts its handler; at most `limit`
\* handlers run at a time, the updates are /start, a text of `texts` or a
\* button press of `cbs`, and at most `cap` pairs are ever saved
Deliver(limit, senders, texts, cbs, cap) ==
    /\ NumRunning < limit
    /\ \E t \in TaskIds, u \in senders :
         /\ FreeSlot(t)
         /\ \/ tasks' = [Reuse(t) EXCEPT ![t] = NewTask(t, "start", u, <<>>, NoCallback)]
            \/ \E text \in texts :
                 /\ RoomToSave(u, cap)
                 /\ tasks' = [Reuse(t) EXCEPT ![t] = NewTask(t, "text", u, text, NoCallback)]
            \/ \E cb \in cbs :
                 tasks' = [Reuse(t) EXCEPT ![t] = NewTask(t, "callback", u, <<>>, cb)]
    /\ UNCHANGED <<users, words, nextId, now, ticks, states, callbackLocks,
                   lockHolder, ret, job>>

(***************************************************************************)
(* Conversation state map                                                  *)
(***************************************************************************)
GetState(st, u) == IF u \in DOMAIN st THEN st[u] ELSE StateData(StateIdle, <<>>)

SetState(st, u, s) == MapSet(st, u, s)

\* variant: the entry is left as it is
ResetState_Noop(st, u) == st

ResetState(st, u) == SetState(st, u, StateData(StateIdle, <<>>))

\* a Word-service call made by the handler of task record r
CallOp(r, name) ==
    [r EXCEPT !.ops = @ \cup {name},
              !.unauthOps = IF IsAuthorized(users, r.user) THEN @ ELSE @ \cup {name}]

Done(r) == [r EXCEPT !.pc = "done"]

Goto(r, pc) == [r EXCEPT !.pc = pc]

Send(r, msg) == [r EXCEPT !.reply = msg]

\* variant: every failed edit is answered with a new message and the error
\* goes back to the transport loop
Edit_SendOnError(r, msg, outcome) ==
    IF outcome = "ok" THEN [r EXCEPT !.edit = msg]
    ELSE [r EXCEPT !.edit = outcome, !.reply = msg, !.err = outcome]

\* c.Edit and handleEditError: the message is replaced, or the failure is
\* logged (at debug level when the message is not modified) and dropped
Edit(r, msg, outcome) == [r EXCEPT !.edit = IF outcome = "ok" THEN msg ELSE outcome]

\* the handler has built the text and the buttons and goes on to c.Edit
ToEdit(r, msg) == Goto([r EXCEPT !.pending = msg], "cb_edit")

Respond(r) == [r EXCEPT !.acks = @ + 1]

\* a store call of the handler came back with an error
DbErr(r, call) == [r EXCEPT !.dbErr = call]

Put(t, r) == tasks' = [tasks EXCEPT ![t] = r]

(***************************************************************************)
(* handleText                                                              *)
(***************************************************************************)
\* trim, ignore commands, EnsureUserExists
handleText_ensure(t) ==
    LET r == tasks[t]
        text == TrimSpace(r.text)
    IN  /\ r.pc = "tx_ensure"
        /\ IF HasPrefix(text, <<"/">>)
           THEN Put(t, Done(r)) /\ UNCHANGED users
           ELSE \E ok \in BOOLEAN :
                  IF ok
                  THEN users' = EnsureUserExists(users, r.user) /\ Put(t, Goto(r, "tx_isauth"))
                  ELSE UNCHANGED users /\ Put(t, Done(DbErr(r, "EnsureUserExists")))
        /\ UNCHANGED <<words, nextId, now, ticks, states, callbackLocks, lockHolder, ret, job>>

\* IsAuthorized, and CheckPassword for a user who is not
handleText_isauth(t) ==
    LET r == tasks[t]
        text == TrimSpace(r.text)
    IN  /\ r.pc = "tx_isauth"
        /\ \E ok \in BOOLEAN :
             IF ~ok THEN Put(t, Done(Send(DbErr(r, "IsAuthorized"), "error")))
             ELSE IF IsAuthorized(users, r.user)
             THEN Put(t, Goto([r EXCEPT !.authorized = TRUE], "tx_getstate"))
             ELSE IF CheckPassword(text) THEN Put(t, Goto(r, "tx_authorize"))
             ELSE Put(t, Done(Send(r, "wrong_password")))
        /\ UNCHANGED <<users, words, nextId, now, ticks, states, callbackLocks,
                       lockHolder, ret, job>>

handleText_authorize(t) ==
    LET r == tasks[t]
    IN  /\ r.pc = "tx_authorize"
        /\ \E ok \in BOOLEAN :
             IF ok
             THEN users' = AuthorizeUser(users, r.user) /\ Put(t, Goto(r, "tx_reset"))
             ELSE UNCHANGED users /\ Put(t, Done(Send(DbErr(r, "AuthorizeUser"), "error")))
        /\ UNCHANGED <<words, nextId, now, ticks, states, callbackLocks, lockHolder, ret, job>>

handleText_reset(t) ==
    LET r == tasks[t]
    IN  /\ r.pc = "tx_reset"
        /\ states' = ResetState(states, r.user)
        /\ Put(t, Done(Send(r, "access_granted")))
        /\ UNCHANGED <<users, words, nextId, now, ticks, callbackLocks, lockHolder, ret, job>>

\* state := h.GetState(userID); switch state.State
handleText_getstate(t) ==
    LET r == tasks[t]
        state == GetState(states, r.user)
    IN  /\ r.pc = "tx_getstate"
        /\ Put(t, Goto([r EXCEPT !.state = state],
                       IF state.State = StateWaitingTranslation THEN "tx_save"
                       ELSE "tx_setwt"))
        /\ UNCHANGED <<users, words, nextId, now, ticks, states, callbackLocks,
                       lockHolder, ret, job>>

\* case StateWaitingWord and default: the text is the new pending word
handleText_setwt(t) ==
    LET r == tasks[t]
    IN  /\ r.pc = "tx_setwt"
        /\ states' = SetState(states, r.user,
                              StateData(StateWaitingTranslation, TrimSpace(r.text)))
        /\ Put(t, Done(Send(r, "wait_translation")))
        /\ UNCHANGED <<users, words, nextId, now, ticks, callbackLocks, lockHolder, ret, job>>

\* variant: a failed save also drops the pending word
handleText_save_ResetOnFail(t) ==
    LET r == CallOp(tasks[t], "SaveWordPair")
    IN  /\ r.pc = "tx_save"
        /\ \E dbOk \in BOOLEAN :
             LET res == SaveWordPair(words, nextId, users, r.user,
                                     r.state.CurrentWord, TrimSpace(r.text), now, dbOk)
             IN  /\ words' = res.words
                 /\ nextId' = res.nextId
                 /\ IF res.err # ""
                    THEN /\ states' = ResetState(states, r.user)
                         /\ Put(t, Done(Send([r EXCEPT !.saveErr = res.err,
                                                        !.dbErr = IF res.err = "store"
                                                                  THEN "SaveWord" ELSE ""],
                                               "save_failed")))
                    ELSE /\ UNCHANGED states
                         /\ Put(t, Goto(r, "tx_setww"))
        /\ UNCHANGED <<users, now, ticks, callbackLocks, lockHolder, ret, job>>

\* case StateWaitingTranslation: save (state.CurrentWord, text)
handleText_save(t) ==
    LET r == CallOp(tasks[t], "SaveWordPair")
    IN  /\ r.pc = "tx_save"
        /\ \E dbOk \in BOOLEAN :
             LET res == SaveWordPair(words, nextId, users, r.user,
                                     r.state.CurrentWord, TrimSpace(r.text), now, dbOk)
             IN  /\ words' = res.words
                 /\ nextId' = res.nextId
                 /\ IF res.err # ""
                    THEN Put(t, Done(Send([r EXCEPT !.saveErr = res.err,
                                                   !.dbErr = IF res.err = "store"
                                                             THEN "SaveWord" ELSE ""],
                                          "save_failed")))
                    ELSE Put(t, Goto(r, "tx_setww"))
        /\ UNCHANGED <<users, now, ticks, states, callbackLocks, lockHolder, ret, job>>

\* after a successful save: wait for the next word
handleText_setww(t) ==
    LET r == tasks[t]
    IN  /\ r.pc = "tx_setww"
        /\ states' = SetState(states, r.user, StateData(StateWaitingWord, <<>>))
        /\ Put(t, Done(Send(r, "saved")))
        /\ UNCHANGED <<users, words, nextId, now, ticks, callbackLocks, lockHolder, ret, job>>

handleText(t) ==
    \/ handleText_ensure(t)
    \/ handleText_isauth(t)
    \/ handleText_authorize(t)
    \/ handleText_reset(t)
    \/ handleText_getstate(t)
    \/ handleText_setwt(t)
    \/ handleText_save(t)
    \/ handleText_setww(t)

(***************************************************************************)
(* handleStart (the /start command and the back / main-menu buttons)       *)
(***************************************************************************)
handleStart_ensure(t) ==
    LET r == tasks[t]
    IN  /\ r.pc = "st_ensure"
        /\ \E ok \in BOOLEAN :
             IF ok
             THEN users' = EnsureUserExists(users, r.user) /\ Put(t, Goto(r, "st_isauth"))
             ELSE UNCHANGED users /\ Put(t, Done(Send(DbErr(r, "EnsureUserExists"), "error")))
        /\ UNCHANGED <<words, nextId, now, ticks, states, callbackLocks, lockHolder, ret, job>>

handleStart_isauth(t) ==
    LET r == tasks[t]
    IN  /\ r.pc = "st_isauth"
        /\ \E ok \in BOOLEAN :
             IF ok
             THEN Put(t, Goto([r EXCEPT !.authorized = IsAuthorized(users, r.user)],
                              "st_reset"))
             ELSE Put(t, Done(Send(DbErr(r, "IsAuthorized"), "error")))
        /\ UNCHANGED <<users, words, nextId, now, ticks, states, callbackLocks,
                       lockHolder, ret, job>>

\* variant: the wait for the password is written to the state map
handleStart_reset_WaitPassword(t) ==
    LET r == tasks[t]
    IN  /\ r.pc = "st_reset"
        /\ states' = IF r.authorized THEN ResetState(states, r.user)
                      ELSE SetState(states, r.user, StateData(StateWaitingPassword, <<>>))
        /\ Put(t, Done(Send(r, IF r.authorized THEN "main_menu" ELSE "password_prompt")))
        /\ UNCHANGED <<users, words, nextId, now, ticks, callbackLocks, lockHolder, ret, job>>

\* h.ResetState(userID), then the password prompt or the main menu
handleStart_reset(t) ==
    LET r == tasks[t]
    IN  /\ r.pc = "st_reset"
        /\ states' = ResetState(states, r.user)
        /\ Put(t, Done(Send(r, IF r.authorized THEN "main_menu" ELSE "password_prompt")))
        /\ UNCHANGED <<users, words, nextId, now, ticks, callbackLocks, lockHolder, ret, job>>

handleStart(t) ==
    \/ handleStart_ensure(t)
    \/ handleStart_isauth(t)
    \/ handleStart_reset(t)

(***************************************************************************)
(* Button-press handlers                                                   *)
(***************************************************************************)
\* the cleaned data handleCallback passes on, with the prefix cut off
Arg(r, prefix) == TrimPrefix(TrimSpace(cleanCallbackData(r.data)), <<prefix>>)

Unlock(r) == lockHolder' = [lockHolder EXCEPT ![r.lock] = 0]

\* variant: opening the list drops the pending word
handleViewDays_Reset(t) ==
    LET r == CallOp(Respond(tasks[t]), "GetDaysList")
    IN  /\ r.pc = "vd_query"
        /\ states' = ResetState(states, r.user)
        /\ \E ok \in BOOLEAN :
             LET res == GetDaysList(words, r.user, 1, now)
             IN  IF ~ok \/ Len(res.days) = 0 THEN Put(t, Done(r))
                 ELSE Put(t, ToEdit(r, "days_list"))
        /\ UNCHANGED <<users, words, nextId, now, ticks, callbackLocks,
                       lockHolder, ret, job>>

\* GetDaysList(userID, 1), then the list of days is shown
handleViewDays(t) ==
    LET r == CallOp(Respond(tasks[t]), "GetDaysList")
    IN  /\ r.pc = "vd_query"
        /\ \E ok \in BOOLEAN :
             LET res == GetDaysList(words, r.user, 1, now)
             IN  IF ~ok \/ Len(res.days) = 0 THEN Put(t, Done(r))
                 ELSE Put(t, ToEdit(r, "days_list"))
        /\ UNCHANGED <<users, words, nextId, now, ticks, states, callbackLocks,
                       lockHolder, ret, job>>

\* the handlers that hold h.callbackMux, the lock of the lock map
MuxHolders == {x \in TaskIds : tasks[x].pc = "rp_lookup"}

\* c.Respond() for a button press, then h.callbackMux.Lock()
handleRandomPair_mux(t) ==
    LET r == IF tasks[t].isCb THEN Respond(tasks[t]) ELSE tasks[t]
    IN  /\ r.pc = "rp_lockmap"
        /\ MuxHolders = {}
        /\ Put(t, Goto(r, "rp_lookup"))
        /\ UNCHANGED <<users, words, nextId, now, ticks, states, callbackLocks,
                       lockHolder, ret, job>>

\* variant: a new mutex is made for every callback, without the lookup
handleRandomPair_lockmap_Fresh(t) ==
    LET r == tasks[t]
        fresh == Cardinality(DOMAIN lockHolder) + 1
    IN  /\ r.pc = "rp_lookup"
        /\ callbackLocks' = MapSet(callbackLocks, r.user, fresh)
        /\ lockHolder' = MapSet(lockHolder, fresh, 0)
        /\ Put(t, Goto([r EXCEPT !.lock = fresh], "rp_lock"))
        /\ UNCHANGED <<users, words, nextId, now, ticks, states, ret, job>>

\* lock, exists := h.callbackLocks[userID]; ...; h.callbackMux.Unlock()
handleRandomPair_lockmap(t) ==
    LET r == tasks[t]
        fresh == Cardinality(DOMAIN lockHolder) + 1
    IN  /\ r.pc = "rp_lookup"
        /\ IF r.user \in DOMAIN callbackLocks
           THEN /\ UNCHANGED <<callbackLocks, lockHolder>>
                /\ Put(t, Goto([r EXCEPT !.lock = callbackLocks[r.user]], "rp_lock"))
           ELSE /\ callbackLocks' = MapSet(callbackLocks, r.user, fresh)
                /\ lockHolder' = MapSet(lockHolder, fresh, 0)
                /\ Put(t, Goto([r EXCEPT !.lock = fresh], "rp_lock"))
        /\ UNCHANGED <<users, words, nextId, now, ticks, states, ret, job>>

\* lock.Lock()
handleRandomPair_lock(t) ==
    LET r == tasks[t]
    IN  /\ r.pc = "rp_lock"
        /\ lockHolder[r.lock] = 0
        /\ lockHolder' = [lockHolder EXCEPT ![r.lock] = t]
        /\ Put(t, Goto(r, "rp_query"))
        /\ UNCHANGED <<users, words, nextId, now, ticks, states, callbackLocks, ret, job>>

\* variant: the store is queried once more after the first answer
handleRandomPair_query_Retry(t) ==
    LET r == [CallOp(tasks[t], "GetRandomPair") EXCEPT !.queries = @ + 2]
        cands == RandomCandidates(words, r.user, now)
    IN  /\ r.pc = "rp_query"
        /\ \E ok \in BOOLEAN :
             IF ~ok \/ cands = {}
             THEN Unlock(r) /\ Put(t, Done(r))
             ELSE /\ UNCHANGED lockHolder
                  /\ \E w \in cands : Put(t, Goto([r EXCEPT !.shown = w.id], "rp_edit"))
        /\ UNCHANGED <<users, words, nextId, now, ticks, states, callbackLocks, ret, job>>

\* variant: the returns before the edit leave the mutex locked
handleRandomPair_query_KeepLock(t) ==
    LET r == [CallOp(tasks[t], "GetRandomPair") EXCEPT !.queries = @ + 1]
        cands == RandomCandidates(words, r.user, now)
    IN  /\ r.pc = "rp_query"
        /\ UNCHANGED lockHolder
        /\ \E ok \in BOOLEAN :
             IF ~ok \/ cands = {}
             THEN Put(t, Done(r))
             ELSE \E w \in cands : Put(t, Goto([r EXCEPT !.shown = w.id], "rp_edit"))
        /\ UNCHANGED <<users, words, nextId, now, ticks, states, callbackLocks, ret, job>>

\* word, err := h.wordService.GetRandomPair(userID)
handleRandomPair_query(t) ==
    LET r == [CallOp(tasks[t], "GetRandomPair") EXCEPT !.queries = @ + 1]
        cands == RandomCandidates(words, r.user, now)
    IN  /\ r.pc = "rp_query"
        /\ \E ok \in BOOLEAN :
             IF ~ok \/ cands = {}
             THEN Unlock(r) /\ Put(t, Done(r))
             ELSE /\ UNCHANGED lockHolder
                  /\ \E w \in cands : Put(t, Goto([r EXCEPT !.shown = w.id], "rp_edit"))
        /\ UNCHANGED <<users, words, nextId, now, ticks, states, callbackLocks, ret, job>>

\* h.bot.Edit(...); deferred lock.Unlock()
handleRandomPair_edit(t) ==
    LET r == tasks[t]
    IN  /\ r.pc = "rp_edit"
        /\ \E oc \in EditOutcomes : Put(t, Done(Edit(r, "random_pair", oc)))
        /\ Unlock(r)
        /\ UNCHANGED <<users, words, nextId, now, ticks, states, callbackLocks, ret, job>>

handleRandomPair(t) ==
    \/ handleRandomPair_mux(t)
    \/ handleRandomPair_lockmap(t)
    \/ handleRandomPair_lock(t)
    \/ handleRandomPair_query(t)
    \/ handleRandomPair_edit(t)

\* if err := c.Edit(text, markup); err != nil { h.handleEditError(...) };
\* return nil
handleEdit(t) ==
    LET r == tasks[t]
    IN  /\ r.pc = "cb_edit"
        /\ \E oc \in EditOutcomes : Put(t, Done(Edit(r, r.pending, oc)))
        /\ UNCHANGED <<users, words, nextId, now, ticks, states, callbackLocks,
                       lockHolder, ret, job>>

handleCancel(t) ==
    LET r == Respond(tasks[t])
    IN  /\ r.pc = "cn_reset"
        /\ states' = ResetState(states, r.user)
        /\ Put(t, ToEdit(r, "main_menu"))
        /\ UNCHANGED <<users, words, nextId, now, ticks, callbackLocks, lockHolder, ret, job>>

handlePagination(t) ==
    LET r0 == Respond(tasks[t])
        page == Atoi(Arg(r0, "page_"))
        r == CallOp(r0, "GetDaysList")
    IN  /\ r0.pc = "pg_query"
        /\ IF ~page.ok THEN Put(t, Done(r0))
           ELSE \E ok \in BOOLEAN :
                  LET res == GetDaysList(words, r.user, page.val, now)
                  IN  IF ~ok \/ Len(res.days) = 0 THEN Put(t, Done(r))
                      ELSE Put(t, ToEdit(r, "days_list"))
        /\ UNCHANGED <<users, words, nextId, now, ticks, states, callbackLocks,
                       lockHolder, ret, job>>

handleDaySelection(t) ==
    LET r == CallOp(Respond(tasks[t]), "GetWordsByDate")
    IN  /\ r.pc = "ds_query"
        /\ \E ok \in BOOLEAN :
             LET res == GetWordsByDate(words, r.user, Arg(r, "day_"))
             IN  IF ~ok \/ res.err # "" \/ res.words = {} THEN Put(t, Done(r))
                 ELSE Put(t, ToEdit(r, "words_of_day"))
        /\ UNCHANGED <<users, words, nextId, now, ticks, states, callbackLocks,
                       lockHolder, ret, job>>

handleHideFor7Days(t) ==
    LET r0 == Respond(tasks[t])
        wordID == Atoi(Arg(r0, "hide_7d_"))
        r == CallOp(r0, "HideWordFor7Days")
    IN  /\ r0.pc = "h7_hide"
        /\ IF ~wordID.ok THEN Put(t, Done(r0)) /\ UNCHANGED words
           ELSE \E ok \in BOOLEAN :
                  IF ~ok THEN Put(t, Done(DbErr(r, "HideWordFor7Days"))) /\ UNCHANGED words
                  ELSE /\ words' = WordService_HideWordFor7Days(words, wordID.val, now)
                       /\ Put(t, ToEdit(r, "hidden_7d"))
        /\ UNCHANGED <<users, nextId, now, ticks, states, callbackLocks, lockHolder, ret, job>>

\* variant: the word is hidden as soon as the button is pressed
handleHideForeverConfirm_HideNow(t) ==
    LET r == Respond(tasks[t])
        wordID == Atoi(Arg(r, "hide_forever_"))
    IN  /\ r.pc = "hf_confirm"
        /\ IF ~wordID.ok THEN Put(t, Done(r)) /\ UNCHANGED words
           ELSE /\ words' = WordService_HideWordForever(words, wordID.val)
                /\ Put(t, ToEdit(r, "confirm_dialog"))
        /\ UNCHANGED <<users, nextId, now, ticks, states, callbackLocks,
                       lockHolder, ret, job>>

\* parses the id and shows the dialog with the confirm_hide_<id> and
\* cancel_hide_<id> buttons
handleHideForeverConfirm(t) ==
    LET r == Respond(tasks[t])
        wordID == Atoi(Arg(r, "hide_forever_"))
    IN  /\ r.pc = "hf_confirm"
        /\ IF ~wordID.ok THEN Put(t, Done(r))
           ELSE Put(t, ToEdit(r, "confirm_dialog"))
        /\ UNCHANGED <<users, words, nextId, now, ticks, states, callbackLocks,
                       lockHolder, ret, job>>

handleConfirmHideForever(t) ==
    LET r0 == Respond(tasks[t])
        wordID == Atoi(Arg(r0, "confirm_hide_"))
        r == CallOp(r0, "HideWordForever")
    IN  /\ r0.pc = "ch_hide"
        /\ IF ~wordID.ok THEN Put(t, Done(r0)) /\ UNCHANGED words
           ELSE \E ok \in BOOLEAN :
                  IF ~ok THEN Put(t, Done(DbErr(r, "HideWordForever"))) /\ UNCHANGED words
                  ELSE /\ words' = WordService_HideWordForever(words, wordID.val)
                       /\ Put(t, ToEdit(r, "hidden_forever"))
        /\ UNCHANGED <<users, nextId, now, ticks, states, callbackLocks, lockHolder, ret, job>>

\* parses the id, then shows a new random pair
handleCancelHide(t) ==
    LET r == tasks[t]
    IN  /\ r.pc = "xh_parse"
        /\ IF Atoi(Arg(r, "cancel_hide_")).ok
           THEN Put(t, Goto(r, FirstPc("handleRandomPair")))
           ELSE Put(t, Done(r))
        /\ UNCHANGED <<users, words, nextId, now, ticks, states, callbackLocks,
                       lockHolder, ret, job>>

\* no case of handleCallback matched: return c.Respond()
handleUnhandled(t) ==
    LET r == Respond(tasks[t])
    IN  /\ r.pc = "cb_unhandled"
        /\ Put(t, Done(r))
        /\ UNCHANGED <<users, words, nextId, now, ticks, states, callbackLocks,
                       lockHolder, ret, job>>

(***************************************************************************)
(* Specifications                                                          *)
(***************************************************************************)
NoRet == [op |-> "none"]

\* the cleanup goroutine before its first statement: nothing swept, the
\* ticker not yet created, the context not cancelled
NoJob ==
    [pc |-> "start", cancelled |-> FALSE, tick |-> FALSE, consumed |-> 0,
     sweeps |-> 0, failed |-> 0, afterFail |-> 0, lateSweeps |-> 0, exited |-> FALSE]

Init ==
    /\ users = EmptyMap
    /\ words = {}
    /\ nextId = 1
    /\ now = StartHour
    /\ ticks = 0
    /\ states = EmptyMap
    /\ callbackLocks = EmptyMap
    /\ lockHolder = EmptyMap
    /\ tasks = [t \in TaskIds |-> IdleTask]
    /\ ret = NoRet
    /\ job = NoJob

\* the handlers of the conversation: texts, /start and the menu buttons
Conversation(t) ==
    \/ handleText(t)
    \/ handleStart(t)
    \/ handleCancel(t)
    \/ handleViewDays(t)
    \/ handleDaySelection(t)
    \/ handleEdit(t)

\* the handlers of the random-pair, pagination and hide buttons
Buttons(t) ==
    \/ handleRandomPair(t)
    \/ handlePagination(t)
    \/ handleHideFor7Days(t)
    \/ handleHideForeverConfirm(t)
    \/ handleConfirmHideForever(t)
    \/ handleCancelHide(t)
    \/ handleUnhandled(t)
    \/ handleEdit(t)

\* handlers run one at a time: each update is handled before the next arrives
Next ==
    \/ Deliver(1, UserIds, Texts, MenuCallbacks, MaxWords)
    \/ \E t \in TaskIds : Conversation(t)

Spec == Init /\ [][Next]_vars

\* handlers of different updates overlap
NextConc ==
    \/ Deliver(NTasks, ConcUsers, ConcTexts, {}, MaxConcWords)
    \/ \E t \in TaskIds : handleText(t) \/ handleStart(t)

SpecConc == Init /\ [][NextConc]_vars

\* password attempts and the messages that follow, one at a time
NextAuth ==
    \/ Deliver(1, UserIds, AuthTexts, {}, MaxWords)
    \/ \E t \in TaskIds : handleText(t) \/ handleStart(t)

SpecAuth == Init /\ [][NextAuth]_vars

\* a state the conversation reaches: both users authorized and Idle, each
\* with one saved pair
InitButtons ==
    /\ users = [u \in UserIds |-> [authorized |-> TRUE]]
    /\ words = {WordRow(1, 2, <<"a">>, <<"b">>, StartHour),
                WordRow(2, 1, <<"b">>, <<"a">>, StartHour)}
    /\ nextId = 3
    /\ now = StartHour
    /\ ticks = 0
    /\ states = [u \in UserIds |-> StateData(StateIdle, <<>>)]
    /\ callbackLocks = EmptyMap
    /\ lockHolder = EmptyMap
    /\ tasks = [t \in TaskIds |-> IdleTask]
    /\ ret = NoRet
    /\ job = NoJob

\* the random-pair, pagination and hide buttons, pressed one at a time
NextButtons ==
    \/ Deliver(1, UserIds, {}, PairCallbacks, MaxWords)
    \/ \E t \in TaskIds : Buttons(t) \/ handleStart(t)

SpecButtons == InitButtons /\ [][NextButtons]_vars

\* the list, random-pair and hide buttons
PressCallbacks ==
    { [unique |-> "view_days", data |-> <<>>],
      [unique |-> "", data |-> <<"\f", "page_", "2">>],
      [unique |-> "", data |-> <<"\f", "day_">> \o DateString(MoscowDate(StartHour))],
      [unique |-> "random_pair", data |-> <<>>],
      [unique |-> "", data |-> <<"\f", "hide_7d_", "1">>],
      [unique |-> "", data |-> <<"\f", "hide_forever_", "1">>],
      [unique |-> "", data |-> <<"\f", "confirm_hide_", "1">>],
      [unique |-> "", data |-> <<"\f", "cancel_hide_", "1">>] }

\* the texts sent between the presses
PressTexts == { <<"a">>, <<"b">> }

\* a state the conversation reaches: user 1 has saved one pair and has sent
\* the next word, user 2 has not written yet
InitPress ==
    /\ users = MapSet(EmptyMap, 1, [authorized |-> TRUE])
    /\ words = {WordRow(1, 1, <<"a">>, <<"b">>, StartHour)}
    /\ nextId = 2
    /\ now = StartHour
    /\ ticks = 0
    /\ states = MapSet(EmptyMap, 1, StateData(StateWaitingTranslation, <<"a">>))
    /\ callbackLocks = EmptyMap
    /\ lockHolder = EmptyMap
    /\ tasks = [t \in TaskIds |-> IdleTask]
    /\ ret = NoRet
    /\ job = NoJob

\* texts and button presses, one at a time
NextPress ==
    \/ Deliver(1, UserIds, PressTexts, PressCallbacks, MaxWords + 1)
    \/ \E t \in TaskIds :
         \/ handleText(t)
         \/ handleViewDays(t)
         \/ handlePagination(t)
         \/ handleDaySelection(t)
         \/ handleRandomPair(t)
         \/ handleHideFor7Days(t)
         \/ handleHideForeverConfirm(t)
         \/ handleConfirmHideForever(t)
         \/ handleCancelHide(t)
         \/ handleEdit(t)

SpecPress == InitPress /\ [][NextPress]_vars

\* the buttons that lead to handleRandomPair
RandomPairCallbacks ==
    { [unique |-> "random_pair", data |-> <<>>],
      [unique |-> "", data |-> <<"\f", "cancel_hide_", "1">>] }

\* random-pair presses whose handlers overlap
NextPairs ==
    \/ Deliver(NTasks, UserIds, {}, RandomPairCallbacks, MaxWords)
    \/ \E t \in TaskIds : handleRandomPair(t) \/ handleCancelHide(t) \/ handleStart(t)

SpecPairs == InitButtons /\ [][NextPairs]_vars

\* store and transport calls return and a goroutine that can run does run;
\* a goroutine waiting for a sync.Mutex that is unlocked again and again
\* gets it in the end (the mutex hands over to a waiter that has waited
\* longer than a millisecond)
PairsFairness ==
    \A t \in TaskIds :
        /\ SF_vars(handleRandomPair_mux(t))
        /\ WF_vars(handleRandomPair_lockmap(t))
        /\ SF_vars(handleRandomPair_lock(t))
        /\ WF_vars(handleRandomPair_query(t))
        /\ WF_vars(handleRandomPair_edit(t))

SpecPairsLive == SpecPairs /\ PairsFairness

(***************************************************************************)
(* The services called directly, with a running clock                      *)
(***************************************************************************)
\* hours the clock may jump: to the next Moscow midnight, a hide window,
\* the retention window
TickSteps == {21, HideDays * HoursPerDay, retentionDays * HoursPerDay}

SvcWords == { <<>>, <<" ">>, <<"a">> }

SvcTranslations == { <<>>, <<" ">>, <<"b">> }

\* date tokens a caller may pass: the days of the stored pairs, today, and
\* malformed ones
DateInputs ==
    {DateString(MoscowDate(r.created_at)) : r \in words}
      \cup { DateString(MoscowDate(now)),
             <<>>,
             <<"2", "0", "2", "4", "-", "1", "2", "-", "1", "2">>,
             <<"2", "0", "2", "4", "1", "3", "0", "1">> }

Tick ==
    /\ ticks < MaxTicks
    /\ \E d \in TickSteps : now' = now + d
    /\ ticks' = ticks + 1
    /\ ret' = [op |-> "Tick"]
    /\ UNCHANGED <<users, words, nextId, states, callbackLocks, lockHolder, tasks, job>>

SvcEnsureUserExists ==
    /\ \E u \in UserIds :
         /\ users' = EnsureUserExists(users, u)
         /\ ret' = [op |-> "EnsureUserExists", user |-> u]
    /\ UNCHANGED <<words, nextId, now, ticks, states, callbackLocks, lockHolder, tasks, job>>

SvcSaveWordPair ==
    /\ nextId <= MaxRows
    /\ \E u \in UserIds, w \in SvcWords, tr \in SvcTranslations, dbOk \in BOOLEAN :
         LET res == SaveWordPair(words, nextId, users, u, w, tr, now, dbOk)
         IN  /\ words' = res.words
             /\ nextId' = res.nextId
             /\ ret' = [op |-> "SaveWordPair", user |-> u, word |-> w,
                        translation |-> tr, err |-> res.err, calls |-> res.calls,
                        storeOk |-> (dbOk /\ u \in DOMAIN users),
                        id |-> nextId, at |-> now, before |-> words]
    /\ UNCHANGED <<users, now, ticks, states, callbackLocks, lockHolder, tasks, job>>

SvcGetWordsByDate ==
    /\ \E u \in UserIds, ds \in DateInputs :
         LET res == GetWordsByDate(words, u, ds)
         IN  ret' = [op |-> "GetWordsByDate", user |-> u, dateStr |-> ds,
                     err |-> res.err, words |-> res.words, calls |-> res.calls]
    /\ UNCHANGED <<users, words, nextId, now, ticks, states, callbackLocks,
                   lockHolder, tasks, job>>

\* StatsService.CleanupOldData; a failed DELETE removes nothing
SvcCleanupOldData ==
    /\ \E dbOk \in BOOLEAN :
         /\ words' = IF dbOk THEN CleanupOldData(words, now) ELSE words
         /\ ret' = [op |-> "CleanupOldData", before |-> words, at |-> now,
                    users |-> users, err |-> IF dbOk THEN "" ELSE "store"]
    /\ UNCHANGED <<users, nextId, now, ticks, states, callbackLocks, lockHolder, tasks, job>>

\* ids a hide request may carry: those handed out so far and one never used
HideIds == 1..(MaxRows + 1)

SvcGetRandomPair ==
    /\ \E u \in UserIds, dbOk \in BOOLEAN :
         \E res \in GetRandomPair(words, u, now, dbOk) :
            ret' = [op |-> "GetRandomPair", user |-> u, storeOk |-> dbOk,
                    err |-> res.err, found |-> res.found, word |-> res.word]
    /\ UNCHANGED <<users, words, nextId, now, ticks, states, callbackLocks,
                   lockHolder, tasks, job>>

SvcHideWordFor7Days ==
    /\ \E id \in HideIds :
         /\ words' = WordService_HideWordFor7Days(words, id, now)
         /\ ret' = [op |-> "HideWordFor7Days", id |-> id, before |-> words, at |-> now]
    /\ UNCHANGED <<users, nextId, now, ticks, states, callbackLocks, lockHolder, tasks, job>>

SvcHideWordForever ==
    /\ \E id \in HideIds :
         /\ words' = WordService_HideWordForever(words, id)
         /\ ret' = [op |-> "HideWordForever", id |-> id, before |-> words, at |-> now]
    /\ UNCHANGED <<users, nextId, now, ticks, states, callbackLocks, lockHolder, tasks, job>>

\* a word table in which user 1 saved one pair on each of the last k days;
\* with `more`, a second pair today and a pair of user 2
DayRows(k, more) ==
    {WordRow(i, 1, <<"a">>, <<"b">>, StartHour - (i - 1) * HoursPerDay) : i \in 1..k}
      \cup (IF more THEN {WordRow(k + 1, 1, <<"b">>, <<"a">>, StartHour),
                          WordRow(k + 2, 2, <<"a">>, <<"b">>, StartHour)}
            ELSE {})

\* two pairs user 1 saved on the Moscow day LookbackDays days before
\* StartHour, one an hour before the hour the look-back starts at and one an
\* hour after it; the daily sweep has not run since
OldRows(k) ==
    {WordRow(k + 3, 1, <<"a">>, <<"b">>, StartHour - LookbackDays * HoursPerDay - 1),
     WordRow(k + 4, 1, <<"b">>, <<"a">>, StartHour - LookbackDays * HoursPerDay + 1)}

\* pages a caller may ask for
Pages == -1..3

InitDays ==
    /\ \E k \in 0..MaxDays, more \in BOOLEAN, old \in BOOLEAN :
         /\ words = DayRows(k, more) \cup (IF old THEN OldRows(k) ELSE {})
         /\ nextId = k + 5
    /\ users = [u \in UserIds |-> [authorized |-> TRUE]]
    /\ now = StartHour
    /\ ticks = 0
    /\ states = EmptyMap
    /\ callbackLocks = EmptyMap
    /\ lockHolder = EmptyMap
    /\ tasks = [t \in TaskIds |-> IdleTask]
    /\ ret = NoRet
    /\ job = NoJob

SvcGetDaysList ==
    /\ \E u \in UserIds, page \in Pages :
         LET res == GetDaysList(words, u, page, now)
         IN  ret' = [op |-> "GetDaysList", user |-> u, page |-> page,
                     days |-> res.days, totalPages |-> res.totalPages,
                     limit |-> res.limit, offset |-> res.offset]
    /\ UNCHANGED <<users, words, nextId, now, ticks, states, callbackLocks,
                   lockHolder, tasks, job>>

NextDays == SvcGetDaysList

SpecDays == InitDays /\ [][NextDays]_vars

(***************************************************************************)
(* Callback data: cleanCallbackData on every short string                  *)
(***************************************************************************)
\* a letter, the blank, two white-space controls and a control character
\* that is not white space
DataChars == {"a", " ", "\t", "\n", "NUL"}

RECURSIVE Strings(_)
Strings(n) ==
    IF n = 0 THEN {<<>>}
    ELSE LET shorter == Strings(n - 1)
         IN  shorter \cup {Append(x, c) : x \in shorter, c \in DataChars}

SvcCleanCallbackData ==
    /\ \E data \in Strings(MaxLen) :
         ret' = [op |-> "cleanCallbackData", data |-> data,
                 result |-> cleanCallbackData(data)]
    /\ UNCHANGED <<users, words, nextId, now, ticks, states, callbackLocks,
                   lockHolder, tasks, job>>

NextClean == SvcCleanCallbackData

SpecClean == Init /\ [][NextClean]_vars

(***************************************************************************)
(* connectDatabase                                                         *)
(***************************************************************************)
maxRetries == 30

\* connectDatabase before its first attempt: i is the loop counter, db the
\* handle held (0 for none; handle k is the one opened by attempt k), open
\* the handles opened and not closed, err the error of the last failure
ConnectStart ==
    [op |-> "connectDatabase", pc |-> "open", i |-> 0, db |-> 0, open |-> {},
     opens |-> 0, pings |-> 0, closes |-> 0, err |-> "", result |-> ""]

InitConnect ==
    /\ users = EmptyMap
    /\ words = {}
    /\ nextId = 1
    /\ now = StartHour
    /\ ticks = 0
    /\ states = EmptyMap
    /\ callbackLocks = EmptyMap
    /\ lockHolder = EmptyMap
    /\ tasks = [t \in TaskIds |-> IdleTask]
    /\ ret = ConnectStart
    /\ job = NoJob

\* the loop test, and after it db, err = sql.Open("postgres", dsn): with an
\* error the attempt is over (sleep, continue)
ConnectOpen ==
    /\ ret.op = "connectDatabase" /\ ret.pc = "open"
    /\ IF ret.i < maxRetries
       THEN \E ok \in BOOLEAN :
              IF ok
              THEN ret' = [ret EXCEPT !.pc = "ping", !.db = ret.i + 1,
                                      !.open = @ \cup {ret.i + 1},
                                      !.opens = @ + 1, !.err = ""]
              ELSE ret' = [ret EXCEPT !.db = 0, !.opens = @ + 1,
                                      !.err = "open", !.i = @ + 1]
       ELSE ret' = [ret EXCEPT !.pc = "returned", !.db = 0, !.result = "error"]
    /\ UNCHANGED <<users, words, nextId, now, ticks, states, callbackLocks,
                   lockHolder, tasks, job>>

\* variant: the connection whose ping failed is left open
ConnectPing_Leak ==
    /\ ret.op = "connectDatabase" /\ ret.pc = "ping"
    /\ \E ok \in BOOLEAN :
         IF ok
         THEN ret' = [ret EXCEPT !.pc = "returned", !.pings = @ + 1,
                                 !.err = "", !.result = "ok"]
         ELSE ret' = [ret EXCEPT !.pc = "open", !.pings = @ + 1,
                                 !.err = "ping", !.i = @ + 1]
    /\ UNCHANGED <<users, words, nextId, now, ticks, states, callbackLocks,
                   lockHolder, tasks, job>>

\* err = db.Ping(): with an error db.Close(), sleep and continue; without,
\* the pool limits are set and db is returned
ConnectPing ==
    /\ ret.op = "connectDatabase" /\ ret.pc = "ping"
    /\ \E ok \in BOOLEAN :
         IF ok
         THEN ret' = [ret EXCEPT !.pc = "returned", !.pings = @ + 1,
                                 !.err = "", !.result = "ok"]
         ELSE ret' = [ret EXCEPT !.pc = "open", !.pings = @ + 1,
                                 !.open = @ \ {ret.db}, !.closes = @ + 1,
                                 !.err = "ping", !.i = @ + 1]
    /\ UNCHANGED <<users, words, nextId, now, ticks, states, callbackLocks,
                   lockHolder, tasks, job>>

NextConnect == ConnectOpen \/ ConnectPing

SpecConnect == InitConnect /\ [][NextConnect]_vars

(***************************************************************************)
(* Day labels: Day.DisplayString on the days the day list shows            *)
(***************************************************************************)
\* hours of the day at which the list is opened, around Moscow's midnight
LabelHours == {0, 12, 20, 21, 23}

\* the days a label is made for: the days around now and one day of every
\* month of 2024
LabelDays ==
    {MoscowDate(StartHour) + k : k \in -3..2}
      \cup {DaysFromCivil(2024, m, 15) : m \in 1..12}
      \cup {DaysFromCivil(2024, 2, 29), DaysFromCivil(2025, 1, 1)}

InitLabel ==
    /\ users = [u \in UserIds |-> [authorized |-> TRUE]]
    /\ words = {}
    /\ nextId = 1
    /\ \E h \in LabelHours : now = StartHour + h
    /\ ticks = 0
    /\ states = EmptyMap
    /\ callbackLocks = EmptyMap
    /\ lockHolder = EmptyMap
    /\ tasks = [t \in TaskIds |-> IdleTask]
    /\ ret = NoRet
    /\ job = NoJob

SvcDisplayString ==
    /\ \E date \in LabelDays, zone \in LocalOffsets :
         ret' = [op |-> "DisplayString", date |-> date, at |-> now, zone |-> zone,
                 label |-> DisplayString(date, now, zone)]
    /\ UNCHANGED <<users, words, nextId, now, ticks, states, callbackLocks,
                   lockHolder, tasks, job>>

NextLabel == SvcDisplayString

SpecLabel == InitLabel /\ [][NextLabel]_vars

(***************************************************************************)
(* The cleanup job                                                         *)
(***************************************************************************)
\* a database found at start: pairs already past retention, pairs that pass
\* it with the next ticks, and a fresh pair
JobRows ==
    {WordRow(1, 1, <<"a">>, <<"b">>, StartHour - retentionDays * HoursPerDay - 1),
     WordRow(2, 2, <<"a">>, <<"b">>, StartHour - retentionDays * HoursPerDay + 12),
     WordRow(3, 1, <<"b">>, <<"a">>, StartHour - (retentionDays - 1) * HoursPerDay + 12),
     WordRow(4, 2, <<"b">>, <<"a">>, StartHour)}

InitJob ==
    /\ users = [u \in UserIds |-> [authorized |-> TRUE]]
    /\ words = JobRows
    /\ nextId = 5
    /\ now = StartHour
    /\ ticks = 0
    /\ states = EmptyMap
    /\ callbackLocks = EmptyMap
    /\ lockHolder = EmptyMap
    /\ tasks = [t \in TaskIds |-> IdleTask]
    /\ ret = NoRet
    /\ job = NoJob

\* one call of statsService.CleanupOldData by the job; an error is logged
Sweep(j, dbOk) ==
    [j EXCEPT !.sweeps = @ + 1,
              !.failed = IF dbOk THEN @ ELSE @ + 1,
              !.afterFail = IF j.failed > 0 THEN @ + 1 ELSE @,
              !.lateSweeps = IF j.cancelled THEN @ + 1 ELSE @]

\* runCleanupJob up to the loop: the sweep at startup, then the ticker
JobStart ==
    /\ job.pc = "start"
    /\ \E dbOk \in BOOLEAN :
         /\ words' = IF dbOk THEN CleanupOldData(words, now) ELSE words
         /\ job' = [Sweep(job, dbOk) EXCEPT !.pc = "select"]
    /\ UNCHANGED <<users, nextId, now, ticks, states, callbackLocks, lockHolder,
                   tasks, ret>>

\* 24 hours pass and the ticker puts a tick in its channel; the job keeps
\* up with the ticker (a sweep takes less than 24 hours), so the channel is
\* empty when the next tick is due
TickerFire ==
    /\ job.pc = "select" /\ ~job.tick
    /\ ticks < MaxTicks
    /\ now' = now + HoursPerDay
    /\ ticks' = ticks + 1
    /\ job' = [job EXCEPT !.tick = TRUE]
    /\ UNCHANGED <<users, words, nextId, states, callbackLocks, lockHolder, tasks, ret>>

\* variant: a failed sweep ends the job
JobSelect_StopOnError ==
    /\ job.pc = "select"
    /\ \/ /\ job.cancelled
          /\ job' = [job EXCEPT !.pc = "stopped"]
          /\ UNCHANGED words
       \/ /\ job.tick
          /\ \E dbOk \in BOOLEAN :
               /\ words' = IF dbOk THEN CleanupOldData(words, now) ELSE words
               /\ job' = [Sweep(job, dbOk) EXCEPT !.tick = FALSE, !.consumed = @ + 1,
                                                  !.pc = IF dbOk THEN "select"
                                                         ELSE "stopped"]
    /\ UNCHANGED <<users, nextId, now, ticks, states, callbackLocks, lockHolder,
                   tasks, ret>>

\* one round of the select: it takes any of the cases that are ready
JobSelect ==
    /\ job.pc = "select"
    /\ \/ /\ job.cancelled
          /\ job' = [job EXCEPT !.pc = "stopped"]
          /\ UNCHANGED words
       \/ /\ job.tick
          /\ \E dbOk \in BOOLEAN :
               /\ words' = IF dbOk THEN CleanupOldData(words, now) ELSE words
               /\ job' = [Sweep(job, dbOk) EXCEPT !.tick = FALSE, !.consumed = @ + 1]
    /\ UNCHANGED <<users, nextId, now, ticks, states, callbackLocks, lockHolder,
                   tasks, ret>>

\* main receives the signal: bot.Stop(); cancel()
Shutdown ==
    /\ ~job.cancelled
    /\ job' = [job EXCEPT !.cancelled = TRUE]
    /\ UNCHANGED <<users, words, nextId, now, ticks, states, callbackLocks,
                   lockHolder, tasks, ret>>

\* main returns after cancel(): the process ends, and the job with it
ProcessExit ==
    /\ job.cancelled /\ ~job.exited
    /\ job' = [job EXCEPT !.pc = "stopped", !.exited = TRUE]
    /\ UNCHANGED <<users, words, nextId, now, ticks, states, callbackLocks,
                   lockHolder, tasks, ret>>

\* users keep saving pairs while the job runs
JobSave ==
    /\ nextId <= Cardinality(JobRows) + MaxRows
    /\ ~job.exited
    /\ \E u \in UserIds :
         LET res == SaveWordPair(words, nextId, users, u, <<"a">>, <<"b">>, now, TRUE)
         IN  words' = res.words /\ nextId' = res.nextId
    /\ UNCHANGED <<users, now, ticks, states, callbackLocks, lockHolder, tasks,
                   ret, job>>

NextJob ==
    \/ JobStart
    \/ TickerFire
    \/ JobSelect
    \/ Shutdown
    \/ ProcessExit
    \/ JobSave

\* the job goroutine is scheduled, and main returns once it has cancelled
SpecJob ==
    /\ InitJob /\ [][NextJob]_vars
    /\ WF_vars(JobStart) /\ WF_vars(JobSelect) /\ WF_vars(ProcessExit)

NextSvc ==
    \/ Tick
    \/ SvcEnsureUserExists
    \/ SvcSaveWordPair
    \/ SvcGetWordsByDate
    \/ SvcCleanupOldData
    \/ SvcGetRandomPair
    \/ SvcHideWordFor7Days
    \/ SvcHideWordForever

SpecSvc == Init /\ [][NextSvc]_vars

(***************************************************************************)
(* Properties of the conversation (Spec, SpecConc)                         *)
(***************************************************************************)
\* the conversation state stored for u; Absent when the map has no entry
StateOf(u) == IF u \in DOMAIN states THEN states[u] ELSE Absent

\* the handler that served the update of task record r
Handler(r) ==
    IF r.kind = "start" THEN "handleStart"
    ELSE IF r.kind = "text" THEN "handleText"
    ELSE handleCallback(r.unique, r.data)

\* task t has finished handling an update that was routed to handler h
Handled(t, h) == tasks[t].pc = "done" /\ Handler(tasks[t]) = h

\* nothing was written to the word table while r was handled
NoPairStored(r) == words = r.pre.words /\ nextId = r.pre.nextId

\* x is s without its leading and trailing white space
IsTrimOf(x, s) ==
    /\ x = <<>> \/ (~IsSpace(x[1]) /\ ~IsSpace(x[Len(x)]))
    /\ \E i \in 0..Len(s), j \in 0..Len(s) :
         /\ i <= j \/ x = <<>>
         /\ \A k \in 1..i : IsSpace(s[k])
         /\ \A k \in (j + 1)..Len(s) : IsSpace(s[k])
         /\ x = SubSeq(s, i + 1, j)

\* C1: no Word-service operation runs on behalf of a sender whose authorized
\* flag is not true: every text and every button press passes the
\* authorization check before the word store is read or written.
C1_AuthGate == \A t \in TaskIds : tasks[t].unauthOps = {}

\* C2 as stated, on the runs where the user store answers: a text of a user
\* whose authorized flag is false is compared with the password; a match
\* authorizes the user and leaves the state Idle, a mismatch sends the
\* rejection reply and changes nothing.
C2_Original ==
    \A t \in TaskIds :
        LET r == tasks[t] IN
        (Handled(t, "handleText") /\ ~r.pre.auth /\ r.dbErr = "") =>
            IF CheckPassword(TrimSpace(r.text))
            THEN IsAuthorized(users, r.user) /\ StateOf(r.user) = StateData(StateIdle, <<>>)
            ELSE /\ r.reply = "wrong_password"
                 /\ ~IsAuthorized(users, r.user)
                 /\ StateOf(r.user) = r.pre.state
                 /\ NoPairStored(r)

\* C2, amended: for a user whose authorized flag is false, a text whose
\* trimmed form starts with "/" is ignored without a reply; when a user-store
\* call fails nothing is authorized, reset or stored; otherwise the trimmed
\* text is compared with the password: a match sets the flag and the state
\* Idle, a mismatch sends the rejection reply, the flag stays false, the
\* state is unchanged and no pair is stored.
C2_PasswordGate ==
    \A t \in TaskIds :
        LET r == tasks[t]
            text == TrimSpace(r.text)
        IN  (Handled(t, "handleText") /\ ~r.pre.auth) =>
            IF HasPrefix(text, <<"/">>)
            THEN /\ r.reply = "" /\ r.dbErr = ""
                 /\ ~IsAuthorized(users, r.user)
                 /\ (r.user \in DOMAIN users) = r.pre.exists
                 /\ StateOf(r.user) = r.pre.state
                 /\ NoPairStored(r)
            ELSE IF r.dbErr # ""
            THEN /\ r.reply = (IF r.dbErr = "EnsureUserExists" THEN "" ELSE "error")
                 /\ ~IsAuthorized(users, r.user)
                 /\ StateOf(r.user) = r.pre.state
                 /\ NoPairStored(r)
            ELSE IF text = Password
            THEN /\ r.reply = "access_granted"
                 /\ IsAuthorized(users, r.user)
                 /\ StateOf(r.user) = StateData(StateIdle, <<>>)
                 /\ NoPairStored(r)
            ELSE /\ r.reply = "wrong_password"
                 /\ ~IsAuthorized(users, r.user)
                 /\ StateOf(r.user) = r.pre.state
                 /\ NoPairStored(r)

\* a user without the flag sent the password and is now authorized
C2_Witness ==
    \E t \in TaskIds :
        /\ Handled(t, "handleText") /\ ~tasks[t].pre.auth
        /\ TrimSpace(tasks[t].text) = Password
        /\ tasks[t].reply = "access_granted"
        /\ IsAuthorized(users, tasks[t].user)

\* C3: for an authorized user whose state is Idle (no entry reads as Idle), a
\* free text stores no pair and leaves the state WaitingTranslation with
\* CurrentWord equal to the trimmed text.
C3_IdleTextIsWord ==
    \A t \in TaskIds :
        LET r == tasks[t] IN
        (Handled(t, "handleText") /\ r.authorized
            /\ r.pre.state.State \in {StateIdle, Absent.State}) =>
            /\ StateOf(r.user).State = StateWaitingTranslation
            /\ IsTrimOf(StateOf(r.user).CurrentWord, r.text)
            /\ NoPairStored(r)
            /\ "SaveWordPair" \notin r.ops

\* an Idle authorized user sent a padded text and it is pending, trimmed
C3_Witness ==
    \E t \in TaskIds :
        /\ Handled(t, "handleText") /\ tasks[t].authorized
        /\ tasks[t].pre.state = StateData(StateIdle, <<>>)
        /\ tasks[t].text = <<" ", "b", " ">>
        /\ StateOf(tasks[t].user) = StateData(StateWaitingTranslation, <<"b">>)

\* the pair that handling r saves: the pending word with the trimmed text
SavedRow(r) ==
    WordRow(r.pre.nextId, r.user, r.pre.state.CurrentWord, TrimSpace(r.text), now)

C5_CancelResets ==
    \A t \in TaskIds :
        LET r == tasks[t] IN
        /\ Handled(t, "handleCancel") =>
              StateOf(r.user) = StateData(StateIdle, <<>>) /\ NoPairStored(r)
        /\ (Handled(t, "handleText") /\ r.after.kind = "cancel") =>
              /\ NoPairStored(r)
              /\ "SaveWordPair" \notin r.ops
              /\ r.authorized =>
                    StateOf(r.user) = StateData(StateWaitingTranslation, TrimSpace(r.text))

\* a cancel discarded a pending word and the next text became the new word
C5_Witness ==
    \E t \in TaskIds :
        /\ Handled(t, "handleText") /\ tasks[t].authorized
        /\ tasks[t].after.kind = "cancel" /\ tasks[t].after.word # <<>>
        /\ StateOf(tasks[t].user).CurrentWord = TrimSpace(tasks[t].text)
        /\ StateOf(tasks[t].user).CurrentWord # tasks[t].after.word
        /\ words = {}

\* C6 as stated: once /start (or the back / main_menu button) has been
\* handled, the user record exists, the state is Idle, and the reply is the
\* main menu for an authorized user and the password prompt otherwise.
C6_Original ==
    \A t \in TaskIds :
        LET r == tasks[t] IN
        Handled(t, "handleStart") =>
            /\ r.user \in DOMAIN users
            /\ StateOf(r.user) = StateData(StateIdle, <<>>)
            /\ r.reply = IF IsAuthorized(users, r.user) THEN "main_menu"
                         ELSE "password_prompt"

\* C6, amended: the same, provided the user-store calls of the handler
\* succeed; when one fails the reply is the generic error message and the
\* conversation state is left as it was.
C6_StartResets ==
    \A t \in TaskIds :
        LET r == tasks[t] IN
        Handled(t, "handleStart") =>
            IF r.dbErr = ""
            THEN /\ r.user \in DOMAIN users
                 /\ StateOf(r.user) = StateData(StateIdle, <<>>)
                 /\ r.reply = IF IsAuthorized(users, r.user) THEN "main_menu"
                              ELSE "password_prompt"
                 /\ NoPairStored(r)
            ELSE /\ r.reply = "error"
                 /\ StateOf(r.user) = r.pre.state
                 /\ NoPairStored(r)

\* /start reached a user who had no record, and one who had a pending word
C6_Witness ==
    \E t \in TaskIds :
        /\ Handled(t, "handleStart") /\ tasks[t].dbErr = ""
        /\ \/ ~tasks[t].pre.exists /\ tasks[t].reply = "password_prompt"
           \/ /\ tasks[t].pre.state.State = StateWaitingTranslation
              /\ tasks[t].reply = "main_menu"
        /\ tasks[t].user \in DOMAIN users
        /\ StateOf(tasks[t].user) = StateData(StateIdle, <<>>)

\* handler t has read the user's state and has yet to write the state it
\* derived from that read
InStateUpdate(t) == tasks[t].pc \in {"tx_setwt", "tx_setww"}

\* C7: two texts of one user are handled one after the other: while one
\* handler is between its read of the conversation state and its write, no
\* other handler of that user is.
C7_Serialized ==
    \A t1, t2 \in TaskIds :
        (t1 # t2 /\ tasks[t1].user = tasks[t2].user) =>
            ~(InStateUpdate(t1) /\ InStateUpdate(t2))

\* C8: a save that fails in WaitingTranslation stores no pair, sends the
\* failure reply and leaves state and pending word as they were; sending
\* the translation again, with the store answering, saves
\* (CurrentWord, translation).
C8_FailedSaveKeepsState ==
    \A t \in TaskIds :
        LET r == tasks[t] IN
        /\ (Handled(t, "handleText") /\ r.saveErr # "") =>
              /\ r.pre.state.State = StateWaitingTranslation
              /\ NoPairStored(r)
              /\ r.reply = "save_failed"
              /\ StateOf(r.user) = r.pre.state
        /\ (Handled(t, "handleText") /\ r.after.kind = "storefail" /\ r.dbErr = "") =>
              /\ r.pre.state = StateData(StateWaitingTranslation, r.after.word)
              /\ r.reply = "saved"
              /\ words = r.pre.words
                           \cup {WordRow(r.pre.nextId, r.user, r.after.word,
                                         TrimSpace(r.text), now)}

\* a refused save was followed by the same text, and the pair is stored
C8_Witness ==
    \E t \in TaskIds :
        /\ Handled(t, "handleText") /\ tasks[t].after.kind = "storefail"
        /\ tasks[t].reply = "saved"
        /\ \E w \in words : /\ w.word = tasks[t].after.word
                            /\ w.translation = TrimSpace(tasks[t].text)
                            /\ w.user_id = tasks[t].user

(***************************************************************************)
(* Properties of the services (SpecSvc)                                    *)
(***************************************************************************)
\* the outcome of the SaveWordPair call recorded in ret, given whether the
\* call was refused as invalid
SaveOutcome(invalid) ==
    IF invalid
    THEN ret.err = "validation" /\ ret.calls = 0 /\ words = ret.before
    ELSE /\ ret.calls = 1
         /\ IF ret.storeOk
            THEN /\ ret.err = ""
                 /\ words = ret.before \cup {WordRow(ret.id, ret.user, ret.word,
                                                     ret.translation, ret.at)}
            ELSE ret.err = "store" /\ words = ret.before

\* C9 as stated: SaveWordPair fails with a validation error and writes
\* nothing when word or translation is empty after trimming (white space
\* only included); otherwise it calls the store's SaveWord once with the
\* given user, word and translation and returns the store's result.
C9_Original ==
    ret.op = "SaveWordPair" =>
        SaveOutcome(TrimSpace(ret.word) = <<>> \/ TrimSpace(ret.translation) = <<>>)

\* C9, amended: SaveWordPair fails with a validation error and writes
\* nothing when word or translation is the empty string; it does not trim,
\* so every other input, white space only included, goes to the store's
\* SaveWord once with the given user, word and translation, and the store's
\* result is returned.
C9_SaveWordPair ==
    ret.op = "SaveWordPair" =>
        SaveOutcome(ret.word = <<>> \/ ret.translation = <<>>)

\* a white-space-only word went through to the store and was saved
C9_Witness ==
    /\ ret.op = "SaveWordPair"
    /\ ret.word = <<" ">> /\ ret.translation # <<>>
    /\ ret.err = "" /\ ret.calls = 1
    /\ \E r \in words : r.id = ret.id /\ r.word = <<" ">>

\* the token of the Moscow calendar day of instant ts
DateToken(ts) == DateString(MoscowDate(ts))

Eligible(r, u, at) ==
    /\ r.user_id = u
    /\ ~r.hidden_forever
    /\ r.hidden_until # Null => ~(r.hidden_until > at)

\* C11: after any saves, hides and sweeps, GetRandomPair(u) returns only a
\* stored pair owned by u that is not hidden forever and whose hidden_until
\* is unset or not later than now, and it returns one whenever such a pair
\* exists.
C11_RandomPairEligible ==
    (ret.op = "GetRandomPair" /\ ret.err = "") =>
        /\ ret.found => ret.word \in words /\ Eligible(ret.word, ret.user, now)
        /\ (\E r \in words : Eligible(r, ret.user, now)) => ret.found

\* a pair whose seven-day hide has run out is returned again
C11_Witness ==
    /\ ret.op = "GetRandomPair" /\ ret.found
    /\ ret.word \in words
    /\ ret.word.hidden_until # Null /\ ret.word.hidden_until <= now

\* C12: GetRandomPair for a user with no saved pair, or with every pair
\* hidden, returns the no-data result and no error; a store failure is
\* returned as an error, never as the no-data result.
C12_RandomPairNoData ==
    ret.op = "GetRandomPair" =>
        IF ret.storeOk
        THEN (~\E r \in words : Eligible(r, ret.user, now)) =>
                ret.err = "" /\ ~ret.found /\ ret.word = NoWord
        ELSE ret.err # "" /\ ~ret.found

\* the user's only pair is hidden, and the call reports no data without error
C12_Witness ==
    /\ ret.op = "GetRandomPair" /\ ret.storeOk
    /\ ret.err = "" /\ ~ret.found
    /\ \E r \in words : r.user_id = ret.user /\ (r.hidden_forever \/ r.hidden_until > now)

(***************************************************************************)
(* Properties of the buttons (SpecButtons, SpecPairs)                      *)
(***************************************************************************)
\* the word id carried by the hide button that task record r handled
HideTarget(r) ==
    IF Handler(r) = "handleHideFor7Days" THEN Atoi(Arg(r, "hide_7d_"))
    ELSE Atoi(Arg(r, "confirm_hide_"))

\* row w after the hide that task record r requested
HiddenBy(r, w) ==
    IF Handler(r) = "handleHideFor7Days"
    THEN [w EXCEPT !.hidden_until = now + 7 * 24]
    ELSE [w EXCEPT !.hidden_forever = TRUE]

\* C13: a hide callback changes the word whose id it carries, whoever owns
\* it: after a 7-day hide or a confirmed permanent hide whose store call
\* succeeded, exactly the row with that id is hidden, with no regard to the
\* requesting user, and every other row is as before.
C13_HideIgnoresOwner ==
    \A t \in TaskIds :
        LET r == tasks[t] IN
        (/\ r.pc = "done"
         /\ Handler(r) \in {"handleHideFor7Days", "handleConfirmHideForever"}
         /\ HideTarget(r).ok /\ r.dbErr = "") =>
            words = {IF w.id = HideTarget(r).val THEN HiddenBy(r, w) ELSE w :
                        w \in r.pre.words}

\* user 1 pressed a hide button carrying the id of a word of user 2, and
\* that word is now hidden
C13_Witness ==
    \E t \in TaskIds :
        /\ tasks[t].pc = "done" /\ tasks[t].user = 1
        /\ Handler(tasks[t]) \in {"handleHideFor7Days", "handleConfirmHideForever"}
        /\ \E w \in tasks[t].pre.words :
              /\ w.id = HideTarget(tasks[t]).val /\ w.user_id = 2
              /\ w.hidden_until = Null /\ ~w.hidden_forever
              /\ HiddenBy(tasks[t], w) \in words

(***************************************************************************)
(* Properties of the day list (SpecDays)                                   *)
(***************************************************************************)
\* C14: for every page <= 0, GetDaysList(u, page) queries the store with
\* limit 7 and offset 0 and returns the same days and the same total page
\* count as GetDaysList(u, 1).
C14_PageClamped ==
    (ret.op = "GetDaysList" /\ ret.page <= 0) =>
        LET first == GetDaysList(words, ret.user, 1, now)
        IN  /\ ret.limit = 7 /\ ret.offset = 0
            /\ first.limit = 7 /\ first.offset = 0
            /\ ret.days = first.days
            /\ ret.totalPages = first.totalPages

\* page 0 of a user with more than seven days shows the seven newest days
C14_Witness ==
    /\ ret.op = "GetDaysList" /\ ret.page = 0
    /\ Len(ret.days) = 7 /\ ret.totalPages > 1
    /\ ret.days[1].Date = MoscowDate(now)

\* the number of distinct days the store counts for u
DistinctDays(u) == GetTotalDaysCount(words, u, now)

\* C15: GetDaysList returns totalPages = 1 when the user has zero days and
\* ceil(totalDistinctDays / 7) otherwise (14 days give 2 pages, 1 day gives
\* 1 page).
C15_TotalPages ==
    ret.op = "GetDaysList" =>
        LET n == DistinctDays(ret.user)
        IN  /\ n = 0 => ret.totalPages = 1
            /\ n > 0 => /\ 7 * ret.totalPages >= n
                        /\ 7 * (ret.totalPages - 1) < n
            /\ n = 14 => ret.totalPages = 2
            /\ n = 1 => ret.totalPages = 1

\* fourteen days give two pages
C15_Witness ==
    /\ ret.op = "GetDaysList"
    /\ DistinctDays(ret.user) = 14
    /\ ret.totalPages = 2

(***************************************************************************)
(* Properties of the day query and the retention sweep (SpecSvc)           *)
(***************************************************************************)
\* s is an 8-digit YYYYMMDD token of a calendar date
IsYYYYMMDD(s) ==
    /\ Len(s) = 8
    /\ \A i \in 1..8 : s[i] \in Digits
    /\ LET y == 1000 * DigitVal(s[1]) + 100 * DigitVal(s[2]) + 10 * DigitVal(s[3])
                  + DigitVal(s[4])
           m == 10 * DigitVal(s[5]) + DigitVal(s[6])
           d == 10 * DigitVal(s[7]) + DigitVal(s[8])
       IN  m \in 1..12 /\ d \in 1..DaysIn(y, m)

\* C16: GetWordsByDate(u, dateStr) fails with an invalid-date-format error
\* and does not query the store when dateStr is no 8-digit YYYYMMDD date
\* (the empty string and "2024-12-12" included); for a valid dateStr it
\* queries the store once for that calendar date and returns its rows.
C16_DateParsed ==
    ret.op = "GetWordsByDate" =>
        IF IsYYYYMMDD(ret.dateStr)
        THEN /\ ret.err = "" /\ ret.calls = 1
             /\ ret.words = {r \in words : /\ r.user_id = ret.user
                                           /\ DateToken(r.created_at) = ret.dateStr}
        ELSE ret.err = "invalid date format" /\ ret.calls = 0 /\ ret.words = {}

\* "2024-12-12" is refused while the table holds a pair of the user
C16_Witness ==
    /\ ret.op = "GetWordsByDate"
    /\ ret.dateStr = <<"2", "0", "2", "4", "-", "1", "2", "-", "1", "2">>
    /\ ret.err = "invalid date format" /\ ret.calls = 0
    /\ \E r \in words : r.user_id = ret.user

\* C17: a retention sweep run at time now deletes exactly the pairs, of any
\* user, created strictly more than 60 days before now; every newer pair,
\* the hidden flags of the remaining pairs and every user record are left
\* unchanged.
C17_SweepExact ==
    (ret.op = "CleanupOldData" /\ ret.err = "") =>
        /\ words = {r \in ret.before : ret.at - r.created_at <= 60 * 24}
        /\ users = ret.users

\* a sweep deleted a pair older than 60 days
C17_Witness ==
    /\ ret.op = "CleanupOldData" /\ ret.err = ""
    /\ \E r \in ret.before : r \notin words /\ ret.at - r.created_at > 60 * 24

(***************************************************************************)
(* Properties of the cleanup job (SpecJob)                                 *)
(***************************************************************************)
\* C18: the job sweeps once when it starts and then once per 24-hour tick;
\* a sweep that fails is only logged and stops neither the job nor the
\* process, so every later tick is followed by another sweep until
\* shutdown.
C18_SweepPerTick ==
    /\ [](/\ job.pc = "start" => job.sweeps = 0 /\ job.consumed = 0
          /\ job.pc = "select" => job.sweeps = 1 + job.consumed
          /\ ticks = job.consumed + (IF job.tick THEN 1 ELSE 0)
          /\ job.pc = "stopped" => job.cancelled /\ job.sweeps <= 1 + job.consumed)
    /\ (job.pc = "start") ~> (job.sweeps >= 1 \/ job.cancelled)
    /\ (job.tick /\ job.failed > 0) ~> (~job.tick \/ job.cancelled)
    /\ job.tick ~> (~job.tick \/ job.cancelled)

\* a sweep failed, the job went on, and a later tick was swept
C18_Witness ==
    /\ job.failed >= 1 /\ job.afterFail >= 1
    /\ job.consumed >= 1 /\ job.sweeps = 1 + job.consumed
    /\ ~job.cancelled /\ job.pc = "select"

\* C19: after the shutdown signal cancels the shared context the job starts
\* no retention sweep.
C19_NoSweepAfterCancel == job.lateSweeps = 0

(***************************************************************************)
(* Properties of the random-pair lock (SpecPairs)                          *)
(***************************************************************************)
\* handler t has looked up its user's mutex and has not yet returned
HasMutex(t) == tasks[t].pc \in {"rp_lock", "rp_query", "rp_edit"}

\* handler t is between its store query and the end of its message edit
InRandomPair(t) == tasks[t].pc \in {"rp_query", "rp_edit"}

\* C20: all random-pair handlers of a user use one lazily created mutex (no
\* second mutex is created for a user, also when the first callbacks race),
\* so at most one handler per user is between its store query and the end
\* of its message edit; handlers of different users never wait for each
\* other on this lock.
C20_OneMutexPerUser ==
    /\ Cardinality(DOMAIN lockHolder) = Cardinality(DOMAIN callbackLocks)
    /\ \A u1, u2 \in DOMAIN callbackLocks :
          callbackLocks[u1] = callbackLocks[u2] => u1 = u2
    /\ \A t \in TaskIds :
          HasMutex(t) => /\ tasks[t].user \in DOMAIN callbackLocks
                         /\ tasks[t].lock = callbackLocks[tasks[t].user]
    /\ \A t1, t2 \in TaskIds :
          (t1 # t2 /\ tasks[t1].user = tasks[t2].user) =>
              ~(InRandomPair(t1) /\ InRandomPair(t2))
    /\ \A t \in TaskIds :
          (tasks[t].pc = "rp_lock" /\ lockHolder[tasks[t].lock] # 0) =>
              tasks[lockHolder[tasks[t].lock]].user = tasks[t].user
    /\ \A t \in TaskIds :
          InRandomPair(t) => lockHolder[tasks[t].lock] = t

\* two presses of one user raced: one handler edits its message while the
\* other waits for the same mutex
C20_Witness ==
    \E t1, t2 \in TaskIds :
        /\ t1 # t2 /\ tasks[t1].user = tasks[t2].user
        /\ tasks[t1].pc = "rp_edit" /\ tasks[t2].pc = "rp_lock"
        /\ tasks[t1].lock = tasks[t2].lock
        /\ lockHolder[tasks[t1].lock] = t1

\* the press handled in slot t is a random-pair request: the random_pair or
\* more button, or cancel_hide_<id> with a numeric id
IsRandomPairRequest(t) ==
    LET r == tasks[t]
        h == handleCallback(r.unique, r.data)
    IN  /\ r.isCb
        /\ \/ h = "handleRandomPair"
           \/ h = "handleCancelHide" /\ Atoi(Arg(r, "cancel_hide_")).ok

\* every press has made the number of store queries its position calls for
QueriedOnce ==
    \A t \in TaskIds :
        /\ ~IsRandomPairRequest(t) => tasks[t].queries = 0
        /\ IsRandomPairRequest(t) =>
              /\ tasks[t].pc \in {"xh_parse", "rp_lockmap", "rp_lookup", "rp_lock", "rp_query"}
                    => tasks[t].queries = 0
              /\ tasks[t].pc \in {"rp_edit", "done"} => tasks[t].queries = 1

\* C21 as stated: one store query per delivered random-pair press, and the
\* query of a press that arrived later starts only after the press of the
\* same user that arrived earlier has finished its query and message edit.
C21_Original ==
    /\ QueriedOnce
    /\ \A t1, t2 \in TaskIds :
          (/\ IsRandomPairRequest(t1) /\ IsRandomPairRequest(t2)
           /\ t1 \in tasks[t2].behind
           /\ tasks[t2].queries > 0) => tasks[t1].pc = "done"

\* C21 (amended): the store is queried exactly once for each random-pair
\* press the transport delivers, never more, and the queries and edits of
\* one user's presses do not overlap: a query starts only after every press
\* of that user whose query started before it has finished its query and
\* message edit. The presses are served in the order in which their handlers
\* take the user's mutex, which need not be the order of arrival.
C21_QueryOncePerPress ==
    /\ []QueriedOnce
    /\ [][\A t \in TaskIds :
            tasks'[t].queries > tasks[t].queries =>
                \A t2 \in TaskIds \ {t} :
                    tasks[t2].user = tasks[t].user =>
                        \/ tasks[t2].queries = 0
                        \/ tasks[t2].pc = "done"]_vars

\* two presses of one user: the one that arrived later has queried and edited
\* and returned, and the earlier one is only now editing its message
C21_Witness ==
    \E t1, t2 \in TaskIds :
        /\ IsRandomPairRequest(t1) /\ IsRandomPairRequest(t2)
        /\ t1 \in tasks[t2].behind
        /\ tasks[t2].pc = "done" /\ tasks[t2].queries = 1 /\ tasks[t2].edit # ""
        /\ tasks[t1].pc = "rp_edit" /\ tasks[t1].queries = 1

(***************************************************************************)
(* Properties of the message edit (SpecButtons)                            *)
(***************************************************************************)
\* handler t is about to edit the message of its button press
AtEdit(t) == tasks[t].pc \in {"cb_edit", "rp_edit"}

\* the record of handler t once its edit has returned with outcome e
Edited(t, e) == [tasks[t] EXCEPT !.pc = "done", !.edit = e]

\* C22: an edit that fails because the message is not modified is a benign
\* no-op: the handler sends no new message and returns no error, and users,
\* words, conversation states and locks are exactly as after a successful
\* edit (the edit step changes none of them, whatever its outcome; the
\* random-pair handler releases the user's mutex in both cases).
C22_NotModifiedBenign ==
    /\ [](\A t \in TaskIds :
            (tasks[t].pc = "done" /\ tasks[t].isCb /\ tasks[t].edit = "not_modified")
                => tasks[t].reply = "" /\ tasks[t].err = "")
    /\ [][\A t \in TaskIds :
            (AtEdit(t) /\ tasks'[t].pc = "done") =>
                /\ UNCHANGED <<users, words, nextId, states, callbackLocks>>
                /\ lockHolder' = IF tasks[t].pc = "rp_edit"
                                 THEN [lockHolder EXCEPT ![tasks[t].lock] = 0]
                                 ELSE lockHolder
                /\ tasks'[t].edit = "not_modified" =>
                      tasks'[t] = Edited(t, "not_modified")]_vars

\* a 7-day hide was stored, the edit that should confirm it came back as not
\* modified, and the word stays hidden with nothing else sent
C22_Witness ==
    \E t \in TaskIds :
        /\ Handled(t, "handleHideFor7Days") /\ tasks[t].edit = "not_modified"
        /\ tasks[t].reply = "" /\ tasks[t].acks = 1
        /\ \E w \in tasks[t].pre.words :
              /\ w.id = HideTarget(tasks[t]).val /\ w.hidden_until = Null
              /\ HiddenBy(tasks[t], w) \in words

(***************************************************************************)
(* Properties of the authorized flag (Spec)                                *)
(***************************************************************************)
\* handler t is at its AuthorizeUser call, which it reaches only after
\* CheckPassword accepted the text of its message
PasswordMatched(t, u) ==
    /\ tasks[t].kind = "text" /\ tasks[t].user = u
    /\ tasks[t].pc = "tx_authorize"
    /\ CheckPassword(TrimSpace(tasks[t].text))

\* C23: the authorized flag of a user changes only from false to true, and
\* only in the AuthorizeUser call that follows a password match of that
\* user; a user record, once made, stays, an authorized user stays
\* authorized through every later event, and no step other than that call
\* (EnsureUserExists included) changes the record of an existing user.
C23_AuthorizedMonotone ==
    [][\A u \in UserIds :
         /\ u \in DOMAIN users => u \in DOMAIN users'
         /\ IsAuthorized(users, u) => IsAuthorized(users', u)
         /\ (~IsAuthorized(users, u) /\ IsAuthorized(users', u)) =>
               \E t \in TaskIds : PasswordMatched(t, u) /\ tasks'[t].pc = "tx_reset"
         /\ (u \in DOMAIN users /\ ~\E t \in TaskIds : PasswordMatched(t, u)) =>
               users'[u] = users[u]]_vars

\* a user who was already authorized sent /start and a text, both handlers
\* ran EnsureUserExists, and the user is still authorized
C23_Witness ==
    \E t \in TaskIds :
        /\ Handled(t, "handleText") /\ tasks[t].pre.auth /\ tasks[t].authorized
        /\ tasks[t].reply = "wait_translation"
        /\ IsAuthorized(users, tasks[t].user)
        /\ \E u \in UserIds : u # tasks[t].user /\ u \in DOMAIN users
                               /\ ~IsAuthorized(users, u)

\* C24 as stated (on the runs where the user store answers): a message of
\* an unauthorized user authorizes the user if its text equals the password
\* byte for byte, after any number of wrong attempts, and never if the text
\* differs from the password in any byte.
C24_Original ==
    \A t \in TaskIds :
        LET r == tasks[t] IN
        (Handled(t, "handleText") /\ ~r.pre.auth /\ r.dbErr = "") =>
            (IsAuthorized(users, r.user) <=> r.text = Password)

\* C24 (amended): the text is compared after its leading and trailing white
\* space is cut. A message of an unauthorized user whose trimmed text equals
\* the password byte for byte (and does not start with "/") authorizes the
\* user when the handler's user-store calls succeed, after any number of
\* earlier wrong attempts; a message whose trimmed text differs from the
\* password in any byte, letter case included, never authorizes, and nothing
\* is authorized when a user-store call fails.
C24_PasswordExact ==
    \A t \in TaskIds :
        LET r == tasks[t]
            text == TrimSpace(r.text)
        IN  (Handled(t, "handleText") /\ ~r.pre.auth) =>
            (IsAuthorized(users, r.user) <=>
                (text = Password /\ ~HasPrefix(text, <<"/">>) /\ r.dbErr = ""))

\* the user was rejected MaxAttempts times in a row, with the password in
\* the wrong case among the attempts, and then sent the password
C24_Witness ==
    \E t \in TaskIds :
        /\ Handled(t, "handleText") /\ ~tasks[t].pre.auth
        /\ tasks[t].wrong = MaxAttempts
        /\ tasks[t].text = Password
        /\ tasks[t].reply = "access_granted"
        /\ IsAuthorized(users, tasks[t].user)

(***************************************************************************)
(* Properties of the day label (SpecLabel)                                 *)
(***************************************************************************)
\* C25: DisplayString returns the Today token iff the date is the current
\* calendar day in the fixed timezone (Europe/Moscow, the zone in which the
\* days are grouped), the Yesterday token iff it is the day before, and
\* otherwise the day of month, the month abbreviation of the 12-entry table
\* and the 4-digit year (2024-06-15 gives 15, month 6 of the table, 2024).
C25_DisplayString ==
    ret.op = "DisplayString" =>
        LET c == CivilFromDays(ret.date) IN
        /\ (ret.label = Today) <=> (ret.date = MoscowDate(ret.at))
        /\ (ret.label = Yesterday) <=> (ret.date = MoscowDate(ret.at) - 1)
        /\ ret.label \notin {Today, Yesterday} =>
              ret.label = Decimal(c.d) \o <<" ", months[c.m], " ">> \o Pad(c.y, 4)
        /\ (ret.date = DaysFromCivil(2024, 6, 15) /\ ret.label \notin {Today, Yesterday}) =>
              ret.label = <<"1", "5", " ", "iyun", " ", "2", "0", "2", "4">>

(***************************************************************************)
(* Properties of cleanCallbackData (SpecClean)                             *)
(***************************************************************************)
\* s neither starts nor ends with white space
Trimmed(s) == s = <<>> \/ (~IsSpace(s[1]) /\ ~IsSpace(s[Len(s)]))

\* C26 as stated: for every input, the result of cleanCallbackData contains
\* no non-printable character and has no leading or trailing white space,
\* and cleaning the result again returns it unchanged.
C26_Original ==
    ret.op = "cleanCallbackData" =>
        LET out == ret.result IN
        /\ \A i \in 1..Len(out) : IsPrint(out[i])
        /\ Trimmed(out)
        /\ cleanCallbackData(out) = out

\* C26 (amended): the white space is cut first and the non-printable
\* characters are removed afterwards. The result never contains a
\* non-printable character. When every non-printable character of the input
\* is white space, the result has no leading or trailing white space and
\* cleaning it again returns it unchanged. Otherwise blanks that stood next
\* to a removed control character can end up at the ends of the result; a
\* second cleaning cuts exactly them, and a third changes nothing.
C26_CleanCallbackData ==
    ret.op = "cleanCallbackData" =>
        LET out == ret.result
            again == cleanCallbackData(out)
        IN  /\ \A i \in 1..Len(out) : IsPrint(out[i])
            /\ (\A i \in 1..Len(ret.data) : IsPrint(ret.data[i]) \/ IsSpace(ret.data[i]))
                  => Trimmed(out) /\ again = out
            /\ again = TrimSpace(out)
            /\ cleanCallbackData(again) = again

\* a leading blank was cut and a white-space control character removed
C26_Witness ==
    /\ ret.op = "cleanCallbackData"
    /\ ret.data # <<>> /\ ret.data[1] = " "
    /\ \E i \in 1..Len(ret.data) : ~IsPrint(ret.data[i])
    /\ ret.result = <<"a">>

(***************************************************************************)
(* Properties of the word / translation alternation (SpecConc)             *)
(***************************************************************************)
\* the text of task record r is a free text: not a command and not blank
FreeText(r) ==
    /\ r.kind = "text"
    /\ TrimSpace(r.text) # <<>>
    /\ ~HasPrefix(TrimSpace(r.text), <<"/">>)

\* C27, on the first two messages of a sequence: an authorized user in Idle
\* (or waiting for a word) sends the free texts m1 and m2 one after the
\* other, with no /start or cancel and no store failure; m1 is taken as the
\* word and m2 as its translation, so once both are handled the pair
\* (m1, m2) is stored and the next message will be taken as a new word.
C27_Alternate ==
    \A t1, t2 \in TaskIds :
        LET r1 == tasks[t1]
            r2 == tasks[t2]
        IN  (/\ FreeText(r1) /\ FreeText(r2)
             /\ r1.behind = {} /\ r2.behind = {t1}
             /\ r1.pre.auth /\ r1.pre.state.State # StateWaitingTranslation
             /\ r1.pc = "done" /\ r2.pc = "done"
             /\ r1.dbErr = "" /\ r2.dbErr = "") =>
                /\ \E w \in words \ r1.pre.words :
                      /\ w.user_id = r1.user
                      /\ w.word = TrimSpace(r1.text)
                      /\ w.translation = TrimSpace(r2.text)
                /\ StateOf(r1.user).State # StateWaitingTranslation

\* the days of pages 1..n of the list of u, one page after the other
RECURSIVE PagesUpTo(_, _)
PagesUpTo(u, n) ==
    IF n = 0 THEN <<>>
    ELSE PagesUpTo(u, n - 1) \o GetDaysList(words, u, n, now).days

\* the pairs of u created on Moscow calendar day d
PairsOn(u, d) == {r \in words : r.user_id = u /\ MoscowDate(r.created_at) = d}

\* the Moscow days on which u has a pair not older than the look-back
LookbackDaysOf(u) ==
    {MoscowDate(r.created_at) :
        r \in {x \in words : /\ x.user_id = u
                             /\ x.created_at >= now - LookbackDays * HoursPerDay}}

\* C28: for an unchanged store, pages 1..totalPages of GetDaysList together
\* contain every distinct Moscow calendar day within the 60-day look-back on
\* which the user has pairs exactly once, in descending date order, at most
\* 7 days per page, each with the number of the user's pairs created that
\* day; every page beyond totalPages is empty.
C28_AllDaysOnce ==
    ret.op = "GetDaysList" =>
        LET u == ret.user
            all == PagesUpTo(u, ret.totalPages)
        IN  /\ {all[i].Date : i \in 1..Len(all)} = LookbackDaysOf(u)
            /\ \A i, j \in 1..Len(all) : i < j => all[i].Date > all[j].Date
            /\ Len(ret.days) <= 7
            /\ \A p \in 1..ret.totalPages :
                  /\ Len(GetDaysList(words, u, p, now).days) <= 7
                  /\ GetDaysList(words, u, p, now).totalPages = ret.totalPages
            /\ \A i \in 1..Len(all) :
                  all[i].WordCount = Cardinality(PairsOn(u, all[i].Date))
            /\ \A p \in (ret.totalPages + 1)..(ret.totalPages + 2) :
                  GetDaysList(words, u, p, now).days = <<>>
            /\ ret.page > ret.totalPages => ret.days = <<>>
            /\ (ret.page >= 1 /\ ret.page <= ret.totalPages) =>
                  ret.days = GetDaysList(words, u, ret.page, now).days

\* the same statement with each day's number counting the pairs of that day
\* that are not older than the look-back
C28_CountsInLookback ==
    ret.op = "GetDaysList" =>
        LET u == ret.user
            all == PagesUpTo(u, ret.totalPages)
        IN  /\ {all[i].Date : i \in 1..Len(all)} = LookbackDaysOf(u)
            /\ \A i, j \in 1..Len(all) : i < j => all[i].Date > all[j].Date
            /\ \A p \in 1..ret.totalPages :
                  Len(GetDaysList(words, u, p, now).days) <= 7
            /\ \A i \in 1..Len(all) :
                  all[i].WordCount =
                      Cardinality({r \in PairsOn(u, all[i].Date) :
                                     r.created_at >= now - LookbackDays * HoursPerDay})
            /\ \A p \in (ret.totalPages + 1)..(ret.totalPages + 2) :
                  GetDaysList(words, u, p, now).days = <<>>

(***************************************************************************)
(* Properties of hiding (SpecSvc)                                          *)
(***************************************************************************)
\* the instant a seven-day hide requested at instant t runs out
WindowEnd(t) == t + HideDays * HoursPerDay

\* the step is a HideWordFor7Days call carrying the id of row r
HidesFor7Days(r) == ret'.op = "HideWordFor7Days" /\ ret'.id = r.id

\* C29: after HideWordFor7Days(w) succeeds at time t, GetRandomPair never
\* returns w before t + 7 days, and w is eligible again from t + 7 days on
\* unless it is hidden forever; hiding w again restarts the 7-day window from
\* the time of the later call.  Stated on the stored row: every hide call
\* for w sets the end of its window to the call's instant plus 7 days,
\* whatever it was before, and no other step moves it; GetRandomPair returns
\* no pair whose window has not run out, and reports no data only when the
\* user has no pair that is not hidden forever and whose window has run out.
C29_HiddenFor7Days ==
    /\ [][\A r \in words : \A r2 \in words' :
             r2.id = r.id =>
                 IF HidesFor7Days(r)
                 THEN /\ now' = now
                      /\ r2.hidden_until = WindowEnd(now)
                 ELSE r2.hidden_until = r.hidden_until]_vars
    /\ [](ret.op = "GetRandomPair" /\ ret.err = "" =>
            /\ ret.found =>
                  \/ ret.word.hidden_until = Null
                  \/ now >= ret.word.hidden_until
            /\ ~ret.found =>
                  \A r \in words :
                      (r.user_id = ret.user /\ ~r.hidden_forever) =>
                          r.hidden_until # Null /\ now < r.hidden_until)

\* a pair hidden 21 hours after the start is returned again exactly seven
\* days after that call
C29_Witness ==
    /\ ret.op = "GetRandomPair" /\ ret.found
    /\ ret.word \in words
    /\ ret.word.hidden_until = now
    /\ now = WindowEnd(StartHour + 21)

\* the step is a HideWordForever call carrying the id of row r
HidesForever(r) == ret'.op = "HideWordForever" /\ ret'.id = r.id

\* C30: once HideWordForever(w) has succeeded, no later sequence of
\* operations makes w eligible again: GetRandomPair never returns w
\* afterwards, also after HideWordFor7Days(w) is applied to it and after that
\* 7-day window has passed.  Stated on the stored row: a HideWordForever
\* call for w leaves it hidden forever, no step takes that mark off a row
\* again, no row is stored under an id used before, and GetRandomPair
\* returns no pair that carries the mark.
C30_HiddenForever ==
    /\ [][\A r2 \in words' :
             /\ \A r \in words :
                   r2.id = r.id =>
                       /\ HidesForever(r) => r2.hidden_forever
                       /\ r.hidden_forever => r2.hidden_forever
             /\ (\A r \in words : r.id # r2.id) =>
                   /\ r2.id >= nextId /\ nextId' > r2.id
                   /\ ~r2.hidden_forever]_vars
    /\ [][nextId' >= nextId]_vars
    /\ [](\A r \in words : r.id < nextId)
    /\ [](ret.op = "GetRandomPair" /\ ret.found =>
            ret.word \in words /\ ~ret.word.hidden_forever)

\* a pair hidden forever and then for seven days is still not returned when
\* the seven days have passed
C30_Witness ==
    /\ ret.op = "GetRandomPair" /\ ret.storeOk /\ ~ret.found
    /\ \E r \in words :
          /\ r.user_id = ret.user
          /\ r.hidden_forever
          /\ r.hidden_until # Null /\ r.hidden_until <= now

(***************************************************************************)
(* Properties of the dispatcher and its handlers                           *)
(***************************************************************************)
\* task t takes the step in which handleConfirmHideForever calls the store
ConfirmStep(t) ==
    /\ tasks[t].pc = "ch_hide"
    /\ Handler(tasks[t]) = "handleConfirmHideForever"
    /\ tasks'[t].pc # "ch_hide"

\* C31: pressing the hide-forever button (hide_forever_<id>) only shows the
\* confirmation dialog and changes no word; a word is marked hidden forever
\* only when the confirm callback (confirm_hide_<id>) is handled, and the
\* decline callback (cancel_hide_<id>) changes no word's visibility.
C31_ConfirmBeforeHide ==
    /\ [](\A t \in TaskIds :
            LET r == tasks[t]
            IN  /\ (r.pc \in {"cb_edit", "done"}
                    /\ Handler(r) = "handleHideForeverConfirm") =>
                        /\ words = r.pre.words
                        /\ r.ops = {}
                        /\ Atoi(Arg(r, "hide_forever_")).ok =>
                              r.pending = "confirm_dialog"
                /\ (r.pc # "idle" /\ Handler(r) = "handleCancelHide") =>
                        /\ words = r.pre.words
                        /\ r.ops \subseteq {"GetRandomPair"})
    /\ [][\A w \in words : \A w2 \in words' :
             (w2.id = w.id /\ ~w.hidden_forever /\ w2.hidden_forever) =>
                 \E t \in TaskIds : ConfirmStep(t)]_vars

\* the dialog is on the screen and the word it asks about is not hidden
C31_Witness ==
    \E t \in TaskIds :
        /\ tasks[t].pc = "done"
        /\ Handler(tasks[t]) = "handleHideForeverConfirm"
        /\ tasks[t].edit = "confirm_dialog"
        /\ \E w \in words :
              /\ w.id = Atoi(Arg(tasks[t], "hide_forever_")).val
              /\ ~w.hidden_forever

\* C32: every button-press callback that reaches the dispatcher is
\* acknowledged to the transport at least once, whatever its data and
\* whatever the outcome (success, store error, no data, unparsable page or
\* word id, unknown data, back / main-menu button).
C32_Acknowledged ==
    \A t \in TaskIds :
        (tasks[t].isCb /\ tasks[t].pc = "done") => tasks[t].acks >= 1

(***************************************************************************)
(* Properties of connectDatabase (SpecConnect)                             *)
(***************************************************************************)
\* C33: connectDatabase makes at most 30 connection attempts: it returns
\* the first connection that opens and answers a ping and makes no attempt
\* after that success, it closes a connection whose ping failed before
\* retrying, and it returns an error only after all 30 attempts have failed.
C33_ConnectRetries ==
    /\ [](ret.op = "connectDatabase" =>
            /\ ret.opens <= 30
            /\ ret.pc = "open" => ret.open = {} /\ ret.closes = ret.pings
            /\ ret.result = "ok" =>
                  /\ ret.db # 0 /\ ret.open = {ret.db}
                  /\ ret.db = ret.opens
                  /\ ret.closes = ret.pings - 1
            /\ ret.result = "error" =>
                  /\ ret.opens = 30 /\ ret.open = {}
                  /\ ret.err # "" /\ ret.closes = ret.pings)
    /\ [][ret.result # "" => ret' = ret]_vars

\* the thirtieth attempt succeeds after twenty-nine failed pings, each
\* followed by a close
C33_Witness ==
    /\ ret.op = "connectDatabase" /\ ret.result = "ok"
    /\ ret.opens = 30 /\ ret.closes = 29

(***************************************************************************)
(* Properties of the stored conversation state (Spec)                      *)
(***************************************************************************)
\* C34: in every reachable state, the stored conversation state of a user
\* who is not authorized is Idle with no pending word (or absent), and no
\* user's stored state is ever WaitingPassword: waiting for the password is
\* represented only by authorized = false.
C34_PasswordWaitImplicit ==
    \A u \in UserIds :
        /\ StateOf(u).State # StateWaitingPassword
        /\ ~IsAuthorized(users, u) =>
              StateOf(u) \in {Absent, StateData(StateIdle, <<>>)}

\* a user who was asked for the password and answered with a wrong one has
\* the stored state Idle, while the other user has a word pending
C34_Witness ==
    \E t \in TaskIds, u \in UserIds :
        /\ tasks[t].pc = "done" /\ tasks[t].reply = "wrong_password"
        /\ ~IsAuthorized(users, tasks[t].user)
        /\ StateOf(tasks[t].user) = StateData(StateIdle, <<>>)
        /\ StateOf(u).State = StateWaitingTranslation

\* C35: in every reachable state, a user whose stored state is
\* WaitingTranslation has a non-empty CurrentWord, so a save attempted by
\* the text handler never fails validation because of an empty word and
\* never leaves the user in a state where every translation is rejected.
C35_PendingWordNonEmpty ==
    /\ \A u \in UserIds :
          StateOf(u).State = StateWaitingTranslation => StateOf(u).CurrentWord # <<>>
    /\ \A t \in TaskIds :
          (tasks[t].kind = "text" /\ tasks[t].saveErr = "validation") =>
              tasks[t].state.CurrentWord # <<>>

(***************************************************************************)
(* Properties of the buttons while a word is pending (SpecPress)           *)
(***************************************************************************)
\* task record r is a view-days, pagination, day-selection, random-pair or
\* hide press
IsPress(r) ==
    /\ r.kind = "callback"
    /\ Handler(r) \in {"handleViewDays", "handlePagination", "handleDaySelection",
                        "handleRandomPair", "handleHideFor7Days",
                        "handleHideForeverConfirm", "handleConfirmHideForever",
                        "handleCancelHide"}

\* C36: handling a view-days, pagination, day-selection, random-pair or hide
\* callback never changes any user's conversation state: a word pending in
\* WaitingTranslation survives these button presses and the user's next
\* free-text message is still saved as its translation.
C36_PressKeepsState ==
    /\ [][\A t \in TaskIds :
             /\ (IsPress(tasks[t]) /\ tasks'[t] # tasks[t] /\ tasks'[t].kind = "callback"
                  /\ tasks'[t].pc # FirstPc(Handler(tasks'[t]))) =>
                     states' = states
             /\ (IsPress(tasks[t]) /\ tasks[t].pc = "done"
                  /\ tasks'[t].kind = "text" /\ tasks'[t].pc = FirstPc("handleText")
                  /\ tasks'[t].user = tasks[t].user) =>
                     tasks'[t].pre.state = tasks[t].pre.state]_vars
    /\ [](\A t \in TaskIds :
            LET r == tasks[t]
            IN  /\ (IsPress(r) /\ r.pc # "idle") =>
                        StateOf(r.user) = r.pre.state
                /\ (r.kind = "text" /\ r.pc = "done" /\ r.dbErr = ""
                    /\ r.pre.auth
                    /\ r.pre.state.State = StateWaitingTranslation
                    /\ r.pre.state.CurrentWord # <<>>
                    /\ TrimSpace(r.text) # <<>>
                    /\ ~HasPrefix(TrimSpace(r.text), <<"/">>)) =>
                        \E w \in words \ r.pre.words :
                            /\ w.user_id = r.user
                            /\ w.word = r.pre.state.CurrentWord
                            /\ w.translation = TrimSpace(r.text))

\* a seven-day hide was carried out while a word was pending, and the word
\* is still pending
C36_Witness ==
    \E t \in TaskIds :
        /\ IsPress(tasks[t]) /\ tasks[t].pc = "done"
        /\ Handler(tasks[t]) = "handleHideFor7Days"
        /\ words # tasks[t].pre.words
        /\ tasks[t].pre.state = StateData(StateWaitingTranslation, <<"a">>)
        /\ StateOf(tasks[t].user) = tasks[t].pre.state

(***************************************************************************)
(* Properties of the day buttons (SpecDays)                                *)
(***************************************************************************)
\* C37: for an unchanged store, every day button offered by a days-list
\* page leads to that day's words: for each Day returned by GetDaysList,
\* GetWordsByDate called with the Day's DateString parses successfully and
\* returns exactly WordCount pairs, all created on that calendar day.
C37_DayButtonLeadsToWords ==
    ret.op = "GetDaysList" =>
        \A i \in 1..Len(ret.days) :
            LET day == ret.days[i]
                res == GetWordsByDate(words, ret.user, DateString(day.Date))
            IN  /\ res.err = ""
                /\ Cardinality(res.words) = day.WordCount
                /\ \A w \in res.words :
                      /\ w.user_id = ret.user
                      /\ MoscowDate(w.created_at) = day.Date

(***************************************************************************)
(* Properties of waiting for the random-pair lock (SpecPairsLive)          *)
(***************************************************************************)
\* the per-user mutexes handler t holds
Held(t) == {l \in DOMAIN lockHolder : lockHolder[l] = t}

\* C38: no handler waits forever on the per-user callback lock, provided
\* store and transport calls return: the lock that guards the lock map is
\* released before the per-user lock is requested, the per-user lock is
\* released on every exit path of the random-pair handler (store error, no
\* data, edit failure, success), and no handler requests another lock while
\* holding it.
C38_NoWaitForever ==
    /\ [](/\ Cardinality(MuxHolders) <= 1
          /\ \A t \in TaskIds :
                /\ t \in MuxHolders => Held(t) = {}
                /\ tasks[t].pc \in {"rp_lockmap", "rp_lock"} =>
                      t \notin MuxHolders /\ Held(t) = {}
                /\ tasks[t].pc \in {"rp_query", "rp_edit"} =>
                      t \notin MuxHolders /\ Held(t) = {tasks[t].lock}
                /\ ~Running(t) => Held(t) = {})
    /\ \A t \in TaskIds :
          /\ (tasks[t].pc = "rp_lockmap") ~> (tasks[t].pc = "rp_lookup")
          /\ (tasks[t].pc = "rp_lock") ~> (tasks[t].pc = "rp_query")
          /\ (tasks[t].pc \in {"rp_lockmap", "rp_lookup", "rp_lock", "rp_query", "rp_edit"})
                ~> (tasks[t].pc = "done")

\* a handler that returned without an edit (store error or no data) has
\* released the mutex, and the press that arrived behind it holds it now
C38_Witness ==
    \E t1, t2 \in TaskIds :
        /\ t1 \in tasks[t2].behind
        /\ tasks[t1].pc = "done" /\ tasks[t1].queries = 1 /\ tasks[t1].shown = 0
        /\ tasks[t2].pc = "rp_query"
        /\ tasks[t2].lock = tasks[t1].lock
        /\ Held(t2) = {tasks[t2].lock}

====
